---- MODULE Spec2Model ----
(***************************************************************************)
(* Model of maicroft/users/reddit_user.py: the RedditUser profile          *)
(* aggregation.  One RedditUser object is constructed from a list of       *)
(* comments, a list of submissions and the account metadata; __init__      *)
(* calls process(), which handles every comment, then every submission,   *)
(* then derive_attributes(); results() builds the report.                  *)
(*                                                                         *)
(* Time is epoch seconds (UTC).  A date is a day number (days since        *)
(* 1970-01-01), from which year, month and weekday are computed as         *)
(* datetime does.  Counter.most_common follows Python 3: descending count, *)
(* ties in first-seen order.                                               *)
(***************************************************************************)
EXTENDS Integers, Sequences, FiniteSets, TLC

(***************************************************************************)
(* Bounds of the explored inputs                                           *)
(***************************************************************************)
MaxComments == 2
MaxSubmissions == 1
MaxSynComments == 1
MaxSynSubmissions == 4
MaxRerunPosts == 1
MaxInferComments == 3
MaxInferSubmissions == 3
MaxGateComments == 1
MaxGateSubmissions == 1
MaxSummaryComments == 2
MaxSummarySubmissions == 1
MaxTopicComments == 3
MaxTopicSubmissions == 3
MaxTypeComments == 1
MaxTypeSubmissions == 2
MaxTreeComments == 2
MaxTreeSubmissions == 1
MaxOrderComments == 2
MaxOrderSubmissions == 1

(***************************************************************************)
(* Program constants                                                       *)
(***************************************************************************)
MIN_THRESHOLD == 3
MIN_THRESHOLD_FOR_DEFAULT == 10
HeatmapDays == 61
HeatmapSize == 24 * 61
WindowDays == 60
SecondsPerDay == 86400
SecondsPerHour == 3600
IMAGE_DOMAINS == {<<"imgur.com">>, <<"flickr.com">>}
VIDEO_DOMAINS == {<<"youtube.com">>, <<"youtu.be">>, <<"vimeo.com">>, <<"liveleak.com">>}
IMAGE_EXTENSIONS == {<<"jpg">>, <<"png">>, <<"gif">>, <<"bmp">>}
\* datetime.datetime(datetime.MINYEAR, 1, 1, tzinfo=utc): an instant before
\* every post.  It is only ever compared with post timestamps, so it is kept
\* at the smallest representable number.
MinDate == 0 - 2147483647

(***************************************************************************)
(* Generic sequence helpers                                                *)
(***************************************************************************)
RECURSIVE SeqSum(_)
SeqSum(s) == IF s = <<>> THEN 0 ELSE Head(s) + SeqSum(Tail(s))

Range(s) == {s[i] : i \in 1..Len(s)}

SetMin(S) == CHOOSE x \in S : \A y \in S : x <= y
SetMax(S) == CHOOSE x \in S : \A y \in S : x >= y

\* sorted(list of numbers): insertion into an ascending sequence
RECURSIVE Insert(_, _)
Insert(x, s) ==
    IF s = <<>> THEN <<x>>
    ELSE IF x < Head(s) THEN <<x>> \o s
    ELSE <<Head(s)>> \o Insert(x, Tail(s))

Unsorted(s) == s

RECURSIVE Sorted(_)
Sorted(s) == IF s = <<>> THEN <<>> ELSE Insert(s[Len(s)], Sorted(SubSeq(s, 1, Len(s) - 1)))

\* str.startswith / str.endswith(tuple) on strings given as piece sequences
StartsWith(s, prefix) ==
    Len(s) >= Len(prefix) /\ SubSeq(s, 1, Len(prefix)) = prefix
EndsWith(s, suffix) ==
    Len(s) >= Len(suffix) /\ SubSeq(s, Len(s) - Len(suffix) + 1, Len(s)) = suffix
EndsWithAny(s, suffixes) == \E x \in suffixes : EndsWith(s, x)

\* all sequences over S of length 0..n
SeqsUpTo(S, n) == UNION {[1..k -> S] : k \in 0..n}

(***************************************************************************)
(* datetime: date, hour, weekday, (year, month) of an epoch timestamp      *)
(***************************************************************************)
DateOf(ts) == ts \div SecondsPerDay
HourOf(ts) == (ts % SecondsPerDay) \div SecondsPerHour
\* date.weekday(): Monday is 0; 1970-01-01 was a Thursday
WeekdayOf(day) == (day + 3) % 7

\* proleptic Gregorian calendar: (year, month) of a day number
YearMonth(day) ==
    LET z == day + 719468
        era == z \div 146097
        doe == z - era * 146097
        yoe == (doe - (doe \div 1460) + (doe \div 36524) - (doe \div 146096)) \div 365
        doy == doe - (365 * yoe + (yoe \div 4) - (yoe \div 100))
        mp == (5 * doy + 2) \div 153
        m == IF mp < 10 THEN mp + 3 ELSE mp - 9
        y == yoe + era * 400 + (IF m <= 2 THEN 1 ELSE 0)
    IN <<y, m>>

\* timedelta.seconds: the sub-day remainder of a difference
TimedeltaSeconds(d1, d2) == (d2 - d1) % SecondsPerDay

(***************************************************************************)
(* Static subreddit table (maicroft.subreddits): subreddits_dict,          *)
(* default_subs, ignore_text_subs.  A subreddit absent from the table has  *)
(* no row.  Empty strings are the table's missing levels / attributes.     *)
(***************************************************************************)
SubredditRow(l1, l2, l3, attr, val) ==
    [topic_level1 |-> l1, topic_level2 |-> l2, topic_level3 |-> l3,
     attribute |-> attr, value |-> val]

subreddits_dict ==
    [name \in {"askwomen", "gaming", "bisexual", "nintendo", "twoxchromosomes", "trees",
               "movies", "startrek", "christianity", "askreddit"} |->
        CASE name = "askwomen" -> SubredditRow("Lifestyle", "Gender", "", "gender", "Female")
          [] name = "gaming"   -> SubredditRow("Gaming", "", "", "", "")
          [] name = "bisexual" -> SubredditRow("Orientation", "LGBT", "", "", "")
          [] name = "nintendo" -> SubredditRow("Gaming", "Nintendo", "", "", "")
          [] name = "twoxchromosomes" ->
                SubredditRow("Lifestyle", "Gender", "", "gender", "Female")
          [] name = "trees"    -> SubredditRow("Health", "Drugs", "", "", "")
          [] name = "movies"   -> SubredditRow("Entertainment", "Movies", "", "", "")
          [] name = "startrek" ->
                SubredditRow("Entertainment", "Television", "Star Trek", "", "")
          [] name = "christianity" ->
                SubredditRow("Lifestyle", "Religion and Spirituality", "", "", "")
          [] name = "askreddit" -> SubredditRow("General", "", "", "", "")]

default_subs == {"gaming", "twoxchromosomes"}
ignore_text_subs == {"jokes"}

\* str.lower() on the strings of the table
Lower(s) ==
    CASE s = "Female" -> "female"
      [] s = "Lifestyle" -> "lifestyle"
      [] s = "Gender" -> "gender"
      [] s = "Gaming" -> "gaming"
      [] s = "Orientation" -> "orientation"
      [] s = "LGBT" -> "lgbt"
      [] s = "Nintendo" -> "nintendo"
      [] s = "Generic" -> "generic"
      [] s = "Health" -> "health"
      [] s = "Drugs" -> "drugs"
      [] s = "Entertainment" -> "entertainment"
      [] s = "Movies" -> "movies"
      [] s = "Television" -> "television"
      [] s = "Star Trek" -> "star trek"
      [] s = "Religion and Spirituality" -> "religion and spirituality"
      [] s = "General" -> "general"
      [] OTHER -> s

(***************************************************************************)
(* Posts.  A comment is [subreddit, created_utc, score, pronoun, chunks];  *)
(* a submission has is_self in addition.  pronoun says whether the         *)
(* sanitized text matches \b(i|my)\b; chunks is what the text-extraction   *)
(* collaborator and load_attributes would record for the post: a sequence  *)
(* of [category, value] observations.  The i-th comment has permalink      *)
(* <<"c", i>>, the i-th submission <<"s", i>>.                             *)
(***************************************************************************)
Comment(sub, ts, sc, pro, ch) ==
    [subreddit |-> sub, created_utc |-> ts, score |-> sc, pronoun |-> pro, chunks |-> ch]

\* domain and url_path are strings given as sequences of pieces, so that
\* startswith and endswith are prefix and suffix tests; a self post has
\* domain self.<subreddit>, and a link post made with Submission goes to a
\* page of example.com
Submission(sub, ts, sc, self, pro, ch) ==
    [subreddit |-> sub, created_utc |-> ts, score |-> sc, is_self |-> self,
     pronoun |-> pro, chunks |-> ch,
     domain |-> IF self THEN <<"self.", sub>> ELSE <<"example.com">>,
     url_path |-> <<"/page">>]

\* a link post with the given domain and URL path
LinkSubmission(sub, ts, sc, dom, path) ==
    [subreddit |-> sub, created_utc |-> ts, score |-> sc, is_self |-> FALSE,
     pronoun |-> FALSE, chunks |-> <<>>, domain |-> dom, url_path |-> path]

Chunk(cat, val) == [category |-> cat, value |-> val]

\* day number of a calendar date (inverse of the calendar above)
DayNumber(year, month, dom) ==
    LET y == IF month <= 2 THEN year - 1 ELSE year
        era == y \div 400
        yoe == y - era * 400
        mp == IF month > 2 THEN month - 3 ELSE month + 9
        doy == (153 * mp + 2) \div 5 + dom - 1
        doe == yoe * 365 + (yoe \div 4) - (yoe \div 100) + doy
    IN era * 146097 + doe - 719468

\* the day the profile is built
Today == DayNumber(2016, 3, 2)
At(day, h, m, s) == day * SecondsPerDay + h * SecondsPerHour + m * 60 + s

\* signup instants: 2015-12-15, 2016-01-31 and the day of the run
Signups ==
    {At(DayNumber(2015, 12, 15), 0, 1, 40), At(DayNumber(2016, 1, 31), 1, 0, 0),
     At(Today, 0, 0, 10)}

\* instants the clock can show while derive_attributes runs
NowInstants == {At(Today, 9, 0, 0), At(Today, 9, 0, 1)}

\* (timestamp, score) of the comments of the activity scenarios: the day
\* 60 days before today, the second signup day, 5 days ago, today
TimedComments ==
    { Comment("gaming", p[1], p[2], FALSE, <<>>) : p \in
        { <<At(Today - 60, 23, 0, 0), 3>>,
          <<At(DayNumber(2016, 1, 31), 12, 0, 0), 2>>,
          <<At(Today - 5, 9, 0, 0), 10>>,
          <<At(Today, 9, 0, 0), 0 - 1>> } }

\* and of the submissions: 59 days ago, the second signup day, 5 days ago
TimedSubmissions ==
    { Submission("gaming", p[1], p[2], FALSE, FALSE, <<>>) : p \in
        { <<At(Today - 59, 0, 30, 0), 1>>,
          <<At(DayNumber(2016, 1, 31), 12, 0, 0), 2>>,
          <<At(Today - 5, 9, 0, 0), 10>> } }

(***************************************************************************)
(* State of one RedditUser object                                          *)
(***************************************************************************)
VARIABLES
    comments, submissions,      \* the input lists, in source-array order
    signup_date, today,         \* about["created_utc"]; date of construction
    pc, error,                  \* position in __init__/results; exception raised
    ci, si,                     \* index of the next comment / submission
    metrics_date, metrics_hour, metrics_weekday,
    heatmap, recent_karma, recent_posts,
    submissions_by_type,        \* type name -> list of [name, size] leaves
    best_comment, worst_comment, earliest_comment, latest_comment,
    best_submission, worst_submission, earliest_submission, latest_submission,
    commented_dates, submitted_dates,
    attrs,                      \* genders, orientations, ...: <<value, source>> lists
    derived_attributes,
    first_post_date, lurk_period,
    clock,                      \* the three readings of datetime.now() in derive_attributes
    report,                     \* what results() returned
    run, first_report           \* number of the run on this input; report of run 1

inputVars == <<comments, submissions, signup_date, today>>
metricVars == <<metrics_date, metrics_hour, metrics_weekday, heatmap, recent_karma,
                recent_posts, submissions_by_type>>
commentPtrs == <<best_comment, worst_comment, earliest_comment, latest_comment>>
submissionPtrs == <<best_submission, worst_submission, earliest_submission, latest_submission>>
deriveVars == <<derived_attributes, first_post_date, lurk_period, clock>>
runVars == <<run, first_report>>

vars == <<inputVars, pc, error, ci, si, metricVars, commentPtrs, submissionPtrs,
          commented_dates, submitted_dates, attrs, deriveVars, report, runVars>>

\* None (absent value): the empty sequence; a present value v is <<v>>
None == <<>>
Some(v) == <<v>>

ObsCategories ==
    {"genders", "orientations", "relationship_partners", "places_lived",
     "places_lived_extra", "places_grew_up", "places_grew_up_extra", "family_members",
     "pets", "favorites", "attributes", "attributes_extra", "possessions",
     "possessions_extra"}

DerivedKeys ==
    {"family_members", "gadget", "gender", "locations", "orientation",
     "physical_characteristics", "political_view", "possessions",
     "religion and spirituality"}

\* lines 169-189: the children of submissions_by_type
SubmissionTypes == {"Self", "Image", "Video", "Other"}

Counters == [comments |-> 0, submissions |-> 0, comment_karma |-> 0, submission_karma |-> 0]

\* sorted(list(set(...))) of (year, month) pairs
RECURSIVE SortedYearMonths(_)
SortedYearMonths(S) ==
    IF S = {} THEN <<>>
    ELSE LET lo == CHOOSE a \in S : \A b \in S : a[1] * 12 + a[2] <= b[1] * 12 + b[2]
         IN <<lo>> \o SortedYearMonths(S \ {lo})

\* lines 191-208: one bucket per (year, month) of today - x, x in range(0, age in days)
DateBuckets(td, start) ==
    LET keys == SortedYearMonths({YearMonth(td - x) : x \in 0..(td - start - 1)})
    IN [i \in 1..Len(keys) |-> [date |-> keys[i]] @@ Counters]

\* __init__ up to the call of process()
Construct(cs, ss, sd, td) ==
    /\ comments = cs
    /\ submissions = ss
    /\ signup_date = sd
    /\ today = td
    /\ pc = "process_comments"
    /\ error = "none"
    /\ ci = 1
    /\ si = 1
    /\ metrics_date = DateBuckets(td, DateOf(sd))
    /\ metrics_hour = [h \in 0..23 |-> Counters]
    /\ metrics_weekday = [w \in 0..6 |-> Counters]
    /\ heatmap = [i \in 0..(HeatmapSize - 1) |-> 0]
    /\ recent_karma = [d \in 0..(HeatmapDays - 1) |-> 0]
    /\ recent_posts = [d \in 0..(HeatmapDays - 1) |-> 0]
    /\ submissions_by_type = [t \in SubmissionTypes |-> <<>>]
    /\ best_comment = None
    /\ worst_comment = None
    /\ earliest_comment = None
    /\ latest_comment = None
    /\ best_submission = None
    /\ worst_submission = None
    /\ earliest_submission = None
    /\ latest_submission = None
    /\ commented_dates = <<>>
    /\ submitted_dates = <<>>
    /\ attrs = [c \in ObsCategories |-> <<>>]
    /\ derived_attributes = [k \in DerivedKeys |-> <<>>]
    /\ first_post_date = None
    /\ lurk_period = None
    /\ clock = <<>>
    /\ report = None

\* posts are made after signup and before the profile is built
PostsInLifetime(cs, ss, sd) ==
    /\ \A i \in 1..Len(cs) : cs[i].created_utc >= sd
    /\ \A i \in 1..Len(ss) : ss[i].created_utc >= sd

Init ==
    \E cs \in SeqsUpTo(TimedComments, MaxComments),
       ss \in SeqsUpTo(TimedSubmissions, MaxSubmissions),
       sd \in Signups :
        /\ PostsInLifetime(cs, ss, sd)
        /\ Construct(cs, ss, sd, Today)
        /\ run = 1
        /\ first_report = None

(***************************************************************************)
(* Per-post metric updates                                                 *)
(***************************************************************************)
\* the bucket record with one more comment / submission of the given score
Bump(b, is_comment, score) ==
    IF is_comment
    THEN [b EXCEPT !.comments = @ + 1, !.comment_karma = @ + score]
    ELSE [b EXCEPT !.submissions = @ + 1, !.submission_karma = @ + score]

\* lines 525-533, 606-614: the first bucket whose date is the post's
\* (year, month) is incremented; when the loop finds none nothing happens
RecordDate(md, ts, is_comment, score) ==
    LET key == YearMonth(DateOf(ts))
        hits == {i \in 1..Len(md) : md[i].date = key}
    IN IF hits = {} THEN md
       ELSE [md EXCEPT ![SetMin(hits)] = Bump(@, is_comment, score)]

\* an hour bucket that keeps the score of the last post in place of the sum
RecordHourLastScore(mh, ts, is_comment, score) ==
    [mh EXCEPT ![HourOf(ts)] =
        IF is_comment
        THEN [@ EXCEPT !.comments = @ + 1, !.comment_karma = score]
        ELSE [@ EXCEPT !.submissions = @ + 1, !.submission_karma = score]]

\* lines 535-540, 616-621
RecordHour(mh, ts, is_comment, score) ==
    [mh EXCEPT ![HourOf(ts)] = Bump(@, is_comment, score)]

\* lines 542-547, 623-628
RecordWeekday(mw, ts, is_comment, score) ==
    [mw EXCEPT ![WeekdayOf(DateOf(ts))] = Bump(@, is_comment, score)]

\* (timestamp.date() - days_ago_60).days
DaysInWindow(ts, td) == DateOf(ts) - (td - WindowDays)

HeatmapIndexOfComment(ts, td, is_comment) == DaysInWindow(ts, td) * 24 + HourOf(ts)

\* lines 513-516 (comments) and 595-598 (submissions): the heatmap cell
HeatmapIndex(ts, td, is_comment) ==
    IF is_comment
    THEN DaysInWindow(ts, td) * 24 + HourOf(ts)
    ELSE (DaysInWindow(ts, td) - 1) * 24 + HourOf(ts)

InWindowFromDayZero(ts, td) == DaysInWindow(ts, td) >= 0

\* lines 512, 594: does the post update the recency metrics
InWindow(ts, td) == DaysInWindow(ts, td) > 0

\* a list index past the end raises IndexError
RecencyIndexError(ts, td, is_comment) ==
    /\ InWindow(ts, td)
    /\ \/ HeatmapIndex(ts, td, is_comment) >= HeatmapSize
       \/ DaysInWindow(ts, td) >= HeatmapDays

\* list[i] with a negative i counts from the end of a list of length n
ListIndex(i, n) == IF i < 0 THEN i + n ELSE i

\* lines 512-518, 594-600: the heatmap after a post
RecordHeatmap(hm, ts, td, is_comment) ==
    IF InWindow(ts, td)
    THEN [hm EXCEPT ![ListIndex(HeatmapIndex(ts, td, is_comment), HeatmapSize)] = @ + 1]
    ELSE hm

\* lines 519-520, 601-602: recent_karma after a post
RecordRecentKarma(rk, ts, td, score) ==
    IF InWindow(ts, td) THEN [rk EXCEPT ![DaysInWindow(ts, td)] = @ + score] ELSE rk

\* lines 521-522, 603-604: recent_posts after a post
RecordRecentPosts(rp, ts, td) ==
    IF InWindow(ts, td) THEN [rp EXCEPT ![DaysInWindow(ts, td)] = @ + 1] ELSE rp

\* lines 511-522, 593-604
RecordRecency(ts, score, is_comment) ==
    /\ heatmap' = RecordHeatmap(heatmap, ts, today, is_comment)
    /\ recent_karma' = RecordRecentKarma(recent_karma, ts, today, score)
    /\ recent_posts' = RecordRecentPosts(recent_posts, ts, today)

TextGateWithoutIgnoreList(post, is_comment) ==
    /\ is_comment \/ post.is_self
    /\ post.pronoun

\* lines 554-571, 670-686: is the post handed to the text extraction
TextGate(post, is_comment) ==
    /\ post.subreddit \notin ignore_text_subs
    /\ is_comment \/ post.is_self
    /\ post.pronoun

\* load_attributes for every chunk of the post: appends (value, permalink)
\* to the list of the chunk's category
RECURSIVE LoadChunks(_, _, _)
LoadChunks(a, chunks, permalink) ==
    IF chunks = <<>> THEN a
    ELSE LoadChunks(
            [a EXCEPT ![Head(chunks).category] = Append(@, <<Head(chunks).value, permalink>>)],
            Tail(chunks), permalink)

SubmissionTypeVideoFirst(sb) ==
    IF StartsWith(sb.domain, <<"self.">>) THEN "Self"
    ELSE IF EndsWithAny(sb.domain, VIDEO_DOMAINS) THEN "Video"
    ELSE IF EndsWithAny(sb.url_path, IMAGE_EXTENSIONS) \/ EndsWithAny(sb.domain, IMAGE_DOMAINS)
    THEN "Image"
    ELSE "Other"

\* lines 634-647: first match wins
SubmissionType(sb) ==
    IF StartsWith(sb.domain, <<"self.">>) THEN "Self"
    ELSE IF EndsWithAny(sb.url_path, IMAGE_EXTENSIONS) \/ EndsWithAny(sb.domain, IMAGE_DOMAINS)
    THEN "Image"
    ELSE IF EndsWithAny(sb.domain, VIDEO_DOMAINS) THEN "Video"
    ELSE "Other"

\* the leaf name: the subreddit for a self post, the domain otherwise
SubmissionDomain(sb) ==
    IF StartsWith(sb.domain, <<"self.">>) THEN <<sb.subreddit>> ELSE sb.domain

\* lines 648-663: the first leaf of that name under the type grows by one,
\* or a new leaf of size 1 is appended
RecordType(tree, sb) ==
    LET t == SubmissionType(sb)
        name == SubmissionDomain(sb)
        hits == {i \in 1..Len(tree[t]) : tree[t][i].name = name}
    IN IF hits # {}
       THEN [tree EXCEPT ![t][SetMin(hits)].size = @ + 1]
       ELSE [tree EXCEPT ![t] = Append(@, [name |-> name, size |-> 1])]

BetterOrEqual(score, best_score) == score >= best_score

\* lines 549, 665: is the post's score above the best so far
Better(score, best_score) == score > best_score

\* lines 551, 667: is the post's score below the worst so far
Worse(score, worst_score) == score < worst_score

\* an exception leaves __init__: no object, no report
Raise(e) ==
    /\ pc' = "raised"
    /\ error' = e

AlwaysDerive == TRUE

\* line 446: process() calls derive_attributes only when there is a post
HasPosts == comments # <<>> \/ submissions # <<>>

(***************************************************************************)
(* process(): comments                                                     *)
(***************************************************************************)
process_comments_skipped ==
    /\ pc = "process_comments"
    /\ pc' = "process_submissions"
    /\ UNCHANGED <<inputVars, error, ci, si, metricVars, commentPtrs, submissionPtrs,
                   commented_dates, submitted_dates, attrs, deriveVars, report, runVars>>

\* lines 440-441, 449-462
process_comments ==
    /\ pc = "process_comments"
    /\ IF comments # <<>>
       THEN /\ earliest_comment' = Some(Len(comments))
            /\ latest_comment' = Some(1)
            /\ best_comment' = Some(1)
            /\ worst_comment' = Some(1)
            /\ pc' = "process_comment"
       ELSE /\ UNCHANGED commentPtrs
            /\ pc' = "process_submissions"
    /\ UNCHANGED <<inputVars, error, ci, si, metricVars, submissionPtrs, commented_dates,
                   submitted_dates, attrs, deriveVars, report, runVars>>

\* lines 464-465, 485-571: one iteration of the loop over self.comments
process_comment ==
    /\ pc = "process_comment"
    /\ LET c == comments[ci]
           ts == c.created_utc
       IN IF RecencyIndexError(ts, today, TRUE)
          THEN /\ Raise("IndexError")
               /\ UNCHANGED <<ci, metricVars, commentPtrs, commented_dates, attrs>>
          ELSE /\ commented_dates' = Append(commented_dates, ts)
               /\ RecordRecency(ts, c.score, TRUE)
               /\ metrics_date' = RecordDate(metrics_date, ts, TRUE, c.score)
               /\ metrics_hour' = RecordHour(metrics_hour, ts, TRUE, c.score)
               /\ metrics_weekday' = RecordWeekday(metrics_weekday, ts, TRUE, c.score)
               /\ UNCHANGED submissions_by_type
               /\ IF Better(c.score, comments[best_comment[1]].score)
                  THEN /\ best_comment' = Some(ci)
                       /\ UNCHANGED worst_comment
                  ELSE IF Worse(c.score, comments[worst_comment[1]].score)
                  THEN /\ worst_comment' = Some(ci)
                       /\ UNCHANGED best_comment
                  ELSE UNCHANGED <<best_comment, worst_comment>>
               /\ attrs' = IF TextGate(c, TRUE)
                           THEN LoadChunks(attrs, c.chunks, <<"c", ci>>)
                           ELSE attrs
               /\ ci' = ci + 1
               /\ pc' = IF ci = Len(comments) THEN "process_submissions" ELSE "process_comment"
               /\ UNCHANGED <<error, earliest_comment, latest_comment>>
    /\ UNCHANGED <<inputVars, si, submissionPtrs, submitted_dates, deriveVars, report, runVars>>

(***************************************************************************)
(* process(): submissions                                                  *)
(***************************************************************************)
\* lines 443-447, 467-480
process_submissions ==
    /\ pc = "process_submissions"
    /\ IF submissions # <<>>
       THEN /\ earliest_submission' = Some(Len(submissions))
            /\ latest_submission' = Some(1)
            /\ best_submission' = Some(1)
            /\ worst_submission' = Some(1)
            /\ pc' = "process_submission"
       ELSE /\ UNCHANGED submissionPtrs
            /\ pc' = IF HasPosts THEN "derive_attributes" ELSE "constructed"
    /\ UNCHANGED <<inputVars, error, ci, si, metricVars, commentPtrs, commented_dates,
                   submitted_dates, attrs, deriveVars, report, runVars>>

\* lines 482-483, 573-686: one iteration of the loop over self.submissions
process_submission ==
    /\ pc = "process_submission"
    /\ LET sb == submissions[si]
           ts == sb.created_utc
       IN IF RecencyIndexError(ts, today, FALSE)
          THEN /\ Raise("IndexError")
               /\ UNCHANGED <<si, metricVars, submissionPtrs, submitted_dates, attrs>>
          ELSE /\ submitted_dates' = Append(submitted_dates, ts)
               /\ RecordRecency(ts, sb.score, FALSE)
               /\ metrics_date' = RecordDate(metrics_date, ts, FALSE, sb.score)
               /\ metrics_hour' = RecordHour(metrics_hour, ts, FALSE, sb.score)
               /\ metrics_weekday' = RecordWeekday(metrics_weekday, ts, FALSE, sb.score)
               /\ submissions_by_type' = RecordType(submissions_by_type, sb)
               /\ IF Better(sb.score, submissions[best_submission[1]].score)
                  THEN /\ best_submission' = Some(si)
                       /\ UNCHANGED worst_submission
                  ELSE IF Worse(sb.score, submissions[worst_submission[1]].score)
                  THEN /\ worst_submission' = Some(si)
                       /\ UNCHANGED best_submission
                  ELSE UNCHANGED <<best_submission, worst_submission>>
               /\ attrs' = IF TextGate(sb, FALSE)
                           THEN LoadChunks(attrs, sb.chunks, <<"s", si>>)
                           ELSE attrs
               /\ si' = si + 1
               /\ pc' = IF si = Len(submissions) THEN "derive_attributes" ELSE "process_submission"
               /\ UNCHANGED <<error, earliest_submission, latest_submission>>
    /\ UNCHANGED <<inputVars, ci, commentPtrs, commented_dates, deriveVars, report, runVars>>

(***************************************************************************)
(* collections.Counter                                                     *)
(***************************************************************************)
Count(s, v) == Cardinality({i \in 1..Len(s) : s[i] = v})

\* the distinct elements of s in first-seen order
RECURSIVE Distinct(_)
Distinct(s) ==
    IF s = <<>> THEN <<>>
    ELSE LET init == Distinct(SubSeq(s, 1, Len(s) - 1))
             x == s[Len(s)]
         IN IF x \in Range(init) THEN init ELSE Append(init, x)

\* remove position i
RemoveAt(s, i) == SubSeq(s, 1, i - 1) \o SubSeq(s, i + 1, Len(s))

\* stable sort of <<value, count>> pairs by descending count
FirstSeenOrder(ps) == ps

RECURSIVE SortByCountDesc(_)
SortByCountDesc(ps) ==
    IF ps = <<>> THEN <<>>
    ELSE LET top == SetMin({i \in 1..Len(ps) : \A j \in 1..Len(ps) : ps[j][2] <= ps[i][2]})
         IN <<ps[top]>> \o SortByCountDesc(RemoveAt(ps, top))

\* Counter(s).most_common()
MostCommon(s) ==
    LET ds == Distinct(s)
    IN SortByCountDesc([i \in 1..Len(ds) |-> <<ds[i], Count(s, ds[i])>>])

\* Counter(s).most_common(n)
MostCommonN(s, n) ==
    LET mc == MostCommon(s)
    IN SubSeq(mc, 1, IF Len(mc) < n THEN Len(mc) ELSE n)

(***************************************************************************)
(* derive_attributes()                                                     *)
(***************************************************************************)
\* lines 789-811
commented_subreddits == MostCommon([i \in 1..Len(comments) |-> comments[i].subreddit])
submitted_subreddits == MostCommon([i \in 1..Len(submissions) |-> submissions[i].subreddit])

InfersAttributeAboveThreshold(name, count) ==
    /\ name \in DOMAIN subreddits_dict
    /\ subreddits_dict[name].attribute # ""
    /\ count > MIN_THRESHOLD

\* lines 699-702, 709-712: does the subreddit tally yield a derived attribute
InfersAttribute(name, count) ==
    /\ name \in DOMAIN subreddits_dict
    /\ subreddits_dict[name].attribute # ""
    /\ count >= MIN_THRESHOLD

\* lines 697-715: one loop over (name, count) tallies
RECURSIVE InferFromSubreddits(_, _)
InferFromSubreddits(da, tallies) ==
    IF tallies = <<>> THEN da
    ELSE LET name == Head(tallies)[1]
             count == Head(tallies)[2]
             row == subreddits_dict[name]
         IN InferFromSubreddits(
                IF InfersAttribute(name, count)
                THEN [da EXCEPT ![row.attribute] = Append(@, Lower(row.value))]
                ELSE da,
                Tail(tallies))

\* lines 717-722
InferFromPartner(da, partners) ==
    LET values == {partners[i][1] : i \in 1..Len(partners)}
    IN IF "wife" \in values THEN [da EXCEPT !["gender"] = Append(@, "male")]
       ELSE IF "husband" \in values THEN [da EXCEPT !["gender"] = Append(@, "female")]
       ELSE da

\* lines 728-734
FirstPostDate(cds, sds) ==
    LET first_comment_date == IF cds # <<>> THEN SetMin(Range(cds)) ELSE MinDate
        first_submission_date == IF sds # <<>> THEN SetMin(Range(sds)) ELSE MinDate
    IN IF first_comment_date >= first_submission_date
       THEN first_comment_date ELSE first_submission_date

\* calendar.timegm(d.utctimetuple()): epoch seconds of a datetime, whole seconds
Timegm(ts) == ts - (ts % 1)

\* lines 743-749: the candidate of each pair of consecutive points
GapCandidates(dates) ==
    [i \in 1..(Len(dates) - 1) |->
        [from |-> Timegm(dates[i]), to |-> Timegm(dates[i + 1]),
         days |-> TimedeltaSeconds(dates[i], dates[i + 1])]]

\* max(list, key=days) / min(list, key=days): the first extremal element
FirstMaxByDays(cands) ==
    cands[SetMin({i \in 1..Len(cands) : \A j \in 1..Len(cands) : cands[j].days <= cands[i].days})]

FirstMinByDaysInverted(cands) == FirstMaxByDays(cands)

FirstMinByDays(cands) ==
    cands[SetMin({i \in 1..Len(cands) : \A j \in 1..Len(cands) : cands[j].days >= cands[i].days})]

NoCandidate == [from |-> 0, to |-> 0, days |-> 0 - 1]

\* lines 741-763: a timeline of one point has the candidate {"days": -1}
TimelineLurk(dates) ==
    IF Len(dates) > 1 THEN FirstMaxByDays(GapCandidates(dates)) ELSE NoCandidate

\* x for x in [...] if x["days"] >= 0
Qualifying(cands) == SelectSeq(cands, LAMBDA x : x.days >= 0)

\* lines 777-787
SelectLurk(comment_lurk, submission_lurk, post_lurk) ==
    LET chosen == FirstMinByDays(Qualifying(<<comment_lurk, submission_lurk, post_lurk>>))
    IN [from |-> chosen.from, to |-> chosen.to]

\* lines 724-787 with the clock readings of lines 736, 737, 738
LurkPeriod(cds, sds, now_active, now_commented, now_submitted) ==
    LET commented == Sorted(cds) \o <<now_commented>>
        submitted == Sorted(sds) \o <<now_submitted>>
        active == Sorted(cds \o sds) \o <<now_active>>
    IN SelectLurk(TimelineLurk(commented), TimelineLurk(submitted),
                  FirstMaxByDays(GapCandidates(active)))

\* lines 691-787
derive_attributes ==
    /\ pc = "derive_attributes"
    /\ \E n1, n2, n3 \in NowInstants :
        /\ n1 <= n2
        /\ n2 <= n3
        /\ clock' = <<n1, n2, n3>>
        /\ IF commented_dates \o submitted_dates = <<>>
           THEN \* line 765: max() of an empty list
                /\ Raise("ValueError")
                /\ UNCHANGED lurk_period
           ELSE /\ lurk_period' =
                        Some(LurkPeriod(commented_dates, submitted_dates, n1, n2, n3))
                /\ pc' = "constructed"
                /\ UNCHANGED error
    /\ derived_attributes' =
            InferFromPartner(
                InferFromSubreddits(
                    InferFromSubreddits(derived_attributes, commented_subreddits),
                    submitted_subreddits),
                attrs["relationship_partners"])
    /\ first_post_date' = Some(FirstPostDate(commented_dates, submitted_dates))
    /\ UNCHANGED <<inputVars, ci, si, metricVars, commentPtrs, submissionPtrs,
                   commented_dates, submitted_dates, attrs, report, runVars>>

(***************************************************************************)
(* results(): synopsis                                                     *)
(***************************************************************************)
\* lines 1100-1306: the summary list of one observation list;
\* limit 1 is most_common(1), limit 0 is most_common()
Summarize(obs, limit) ==
    LET values == [i \in 1..Len(obs) |-> obs[i][1]]
        mc == IF limit = 0 THEN MostCommon(values) ELSE MostCommonN(values, limit)
    IN [i \in 1..Len(mc) |->
            [value |-> mc[i][1], count |-> mc[i][2],
             sources |-> LET hit == SelectSeq(obs, LAMBDA o : o[1] = mc[i][1])
                         IN [j \in 1..Len(hit) |-> hit[j][2]]]]

\* lines 1308-1406, in order: (observation list, synopsis key, sub-key, limit)
SynopsisPlan ==
    << <<"genders", "gender", "data", 1>>,
       <<"orientations", "orientation", "data", 1>>,
       <<"relationship_partners", "relationship_partner", "data", 1>>,
       <<"places_lived", "places_lived", "data", 0>>,
       <<"places_lived_extra", "places_lived", "data_extra", 0>>,
       <<"places_grew_up", "places_grew_up", "data", 0>>,
       <<"places_grew_up_extra", "places_grew_up", "data_extra", 0>>,
       <<"family_members", "family_members", "data", 0>>,
       <<"pets", "pets", "data", 0>>,
       <<"favorites", "favorites", "data", 0>>,
       <<"attributes", "attributes", "data", 0>>,
       <<"attributes_extra", "attributes", "data_extra", 0>>,
       <<"possessions", "possessions", "data", 0>>,
       <<"possessions_extra", "possessions", "data_extra", 0>> >>

\* dict.update / assignment of one sub-key of one category
PutSubKey(syn, key, subkey, list) ==
    IF key \in DOMAIN syn
    THEN [syn EXCEPT ![key] = (subkey :> list) @@ @]
    ELSE syn @@ (key :> (subkey :> list))

RECURSIVE DirectSynopsis(_, _, _)
DirectSynopsis(syn, a, plan) ==
    IF plan = <<>> THEN syn
    ELSE LET p == Head(plan)
             list == Summarize(a[p[1]], p[4])
         IN DirectSynopsis(
                IF list # <<>> THEN PutSubKey(syn, p[2], p[3], list) ELSE syn,
                a, Tail(plan))

\* lines 1427-1456
level1_topic_groups ==
    {"business", "entertainment", "gaming", "hobbies and interests", "lifestyle",
     "locations", "music", "science", "sports", "technology", "news and politics"}
level2_topic_groups == {"television", "books", "celebrities", "religion and spirituality"}
exclude_topics == {"general", "drugs", "meta", "adult and nsfw", "other"}
exclude_coalesced_topics == {"religion and spirituality", "more interests", "alternative"}

topic_min_levels_flat(t) == 2

topic_min_levels(t) == IF t \in {"entertainment", "locations"} THEN 3 ELSE 2

\* line 1486: the categories the topic merge never appends to
merge_guarded == {"gender", "religion and spirituality"}

\* lines 1010-1021: the topic path of a table row
TopicPath(row) ==
    << row.topic_level1,
       IF row.topic_level2 # "" THEN row.topic_level2 ELSE "Generic",
       IF row.topic_level3 # "" THEN row.topic_level3 ELSE "Generic" >>

\* lines 1006-1009
MeetsTopicThreshold(name, count) ==
    \/ (name \in default_subs /\ count >= MIN_THRESHOLD_FOR_DEFAULT)
    \/ count >= MIN_THRESHOLD

\* [topic] * count
Repeat(x, n) == [i \in 1..n |-> x]

\* lines 1000-1022
RECURSIVE SynopsisTopics(_)
SynopsisTopics(tallies) ==
    IF tallies = <<>> THEN <<>>
    ELSE LET name == Head(tallies)[1]
             count == Head(tallies)[2]
         IN (IF MeetsTopicThreshold(name, count) /\ name \in DOMAIN subreddits_dict
             THEN Repeat(TopicPath(subreddits_dict[name]), count)
             ELSE <<>>) \o SynopsisTopics(Tail(tallies))

synopsis_topics ==
    SynopsisTopics(MostCommon(
        [i \in 1..Len(submissions) |-> submissions[i].subreddit] \o
        [i \in 1..Len(comments) |-> comments[i].subreddit]))

\* lines 1462-1464
LevelTopics(topic) ==
    LET low == [i \in 1..Len(topic) |-> Lower(topic[i])]
    IN SelectSeq(low, LAMBDA x : x # "generic")

\* lines 1465-1482: the synopsis category of a topic; "" is no category
TopicKey(lt) ==
    IF lt[1] \in exclude_topics THEN ""
    ELSE LET m == IF lt[1] \in level1_topic_groups THEN topic_min_levels(lt[1]) ELSE 2
         IN IF Len(lt) >= m /\ lt[2] \in level2_topic_groups /\ lt[2] \notin exclude_topics
            THEN lt[2]
            ELSE IF Len(lt) >= m /\ lt[2] \notin exclude_topics
            THEN lt[1]
            ELSE IF lt[1] \notin level1_topic_groups
            THEN "other"
            ELSE ""

\* Util.coalesce: the most specific level of the path
Coalesce(lt) == lt[Len(lt)]

\* the result of a step that can raise
Ok(v) == [err |-> "none", val |-> v]
Err(e) == [err |-> e, val |-> <<>>]

\* lines 1459-1501: one topic of Counter(synopsis_topics).most_common()
MergeTopic(syn, topic, count) ==
    IF count < MIN_THRESHOLD THEN Ok(syn)
    ELSE LET lt == LevelTopics(topic)
         IN IF lt = <<>> THEN Err("IndexError")
            ELSE LET key == TopicKey(lt)
                     entry == [value |-> Lower(Coalesce(lt)), count |-> count]
                 IN IF lt[1] \in exclude_topics THEN Ok(syn)
                    ELSE IF key = "" \/ entry.value \in exclude_coalesced_topics THEN Ok(syn)
                    ELSE IF key \notin DOMAIN syn
                    THEN Ok(syn @@ (key :> ("data" :> <<entry>>)))
                    ELSE IF key \in merge_guarded THEN Ok(syn)
                    ELSE IF "data" \notin DOMAIN syn[key] THEN Err("KeyError")
                    ELSE Ok([syn EXCEPT ![key] = ("data" :> Append(@["data"], entry)) @@ @])

RECURSIVE MergeTopics(_, _)
MergeTopics(syn, tallies) ==
    IF tallies = <<>> THEN Ok(syn)
    ELSE LET r == MergeTopic(syn, Head(tallies)[1], Head(tallies)[2])
         IN IF r.err # "none" THEN r ELSE MergeTopics(r.val, Tail(tallies))

\* dict order of self.derived_attributes (lines 266-276)
DerivedOrder ==
    <<"family_members", "gadget", "gender", "locations", "orientation",
      "physical_characteristics", "political_view", "possessions",
      "religion and spirituality">>

\* lines 1504-1512: the data_derived list of one category
DerivedList(k, values) ==
    LET mc == MostCommon(values)
        dd == [i \in 1..Len(mc) |-> [value |-> mc[i][1], count |-> mc[i][2], sources |-> None]]
    IN IF k \in {"gender", "religion and spirituality"} THEN SubSeq(dd, 1, 1) ELSE dd

\* lines 1503-1522
RECURSIVE MergeDerived(_, _, _)
MergeDerived(syn, da, keys) ==
    IF keys = <<>> THEN syn
    ELSE LET k == Head(keys)
         IN MergeDerived(
                IF da[k] # <<>> THEN PutSubKey(syn, k, "data_derived", DerivedList(k, da[k]))
                ELSE syn,
                da, Tail(keys))

\* lines 1308-1522
Synopsis ==
    LET direct == DirectSynopsis(<<>>, attrs, SynopsisPlan)
        merged == MergeTopics(direct, MostCommon(synopsis_topics))
    IN IF merged.err # "none" THEN merged
       ELSE Ok(MergeDerived(merged.val, derived_attributes, DerivedOrder))

(***************************************************************************)
(* results(): the subreddit tree and the topic tree                        *)
(***************************************************************************)
\* the place of a subreddit name of the scenarios in the order of str comparison
NameRank(name) ==
    LET ordered == <<"askreddit", "askwomen", "bisexual", "christianity", "gaming", "jokes",
                     "movies", "nintendo", "startrek", "trees", "twoxchromosomes">>
    IN CHOOSE i \in 1..Len(ordered) : ordered[i] = name

\* lines 876-884, 932-940: groupby(sorted(posts, key=subreddit)): one
\* <<name, count, karma>> per subreddit, in ascending order of name
RECURSIVE SubredditGroups(_, _)
SubredditGroups(posts, names) ==
    IF names = {} THEN <<>>
    ELSE LET lo == CHOOSE a \in names : \A b \in names : NameRank(a) <= NameRank(b)
             mine == SelectSeq(posts, LAMBDA q : q.subreddit = lo)
         IN << <<lo, Len(mine), SeqSum([i \in 1..Len(mine) |-> mine[i].score])>> >> \o
            SubredditGroups(posts, names \ {lo})

\* lines 886-890, 942-946
TopicLevel1(name) ==
    IF name \in DOMAIN subreddits_dict /\ subreddits_dict[name].topic_level1 # "Other"
    THEN subreddits_dict[name].topic_level1
    ELSE "Other"

\* position of the first element of seq called name, 0 when there is none
FirstNamed(seq, name) ==
    LET hits == {i \in 1..Len(seq) : seq[i].name = name}
    IN IF hits = {} THEN 0 ELSE SetMin(hits)

SubredditLeaf(name, c, s, ck, sk) ==
    [name |-> name, comments |-> c, submissions |-> s, posts |-> c + s,
     comment_karma |-> ck, submission_karma |-> sk, karma |-> ck + sk]

\* lines 892-929: one group of the comment pass
AddCommentGroup(tree, g) ==
    LET leaf == SubredditLeaf(g[1], g[2], 0, g[3], 0)
        at == FirstNamed(tree, TopicLevel1(g[1]))
    IN IF at # 0
       THEN [tree EXCEPT ![at].children = Append(@, leaf)]
       ELSE Append(tree, [name |-> TopicLevel1(g[1]), children |-> <<leaf>>])

\* a submission pass that always appends a leaf of its own
AddSubmissionGroupUnmerged(tree, g) ==
    LET leaf == SubredditLeaf(g[1], 0, g[2], 0, g[3])
        at == FirstNamed(tree, TopicLevel1(g[1]))
    IN IF at # 0
       THEN [tree EXCEPT ![at].children = Append(@, leaf)]
       ELSE Append(tree, [name |-> TopicLevel1(g[1]), children |-> <<leaf>>])

\* lines 947-990: one group of the submission pass
AddSubmissionGroup(tree, g) ==
    LET leaf == SubredditLeaf(g[1], 0, g[2], 0, g[3])
        at == FirstNamed(tree, TopicLevel1(g[1]))
    IN IF at # 0
       THEN LET sub == FirstNamed(tree[at].children, g[1])
            IN IF sub # 0
               THEN [tree EXCEPT ![at].children[sub] =
                        [@ EXCEPT !.submissions = g[2], !.submission_karma = g[3],
                                  !.posts = @ + g[2], !.karma = @ + g[3]]]
               ELSE [tree EXCEPT ![at].children = Append(@, leaf)]
       ELSE Append(tree, [name |-> TopicLevel1(g[1]), children |-> <<leaf>>])

RECURSIVE AddCommentGroups(_, _)
AddCommentGroups(tree, groups) ==
    IF groups = <<>> THEN tree
    ELSE AddCommentGroups(AddCommentGroup(tree, Head(groups)), Tail(groups))

RECURSIVE AddSubmissionGroups(_, _)
AddSubmissionGroups(tree, groups) ==
    IF groups = <<>> THEN tree
    ELSE AddSubmissionGroups(AddSubmissionGroup(tree, Head(groups)), Tail(groups))

\* lines 871-990: the children of metrics_subreddit
metrics_subreddit ==
    AddSubmissionGroups(
        AddCommentGroups(<<>>,
            SubredditGroups(comments, {comments[i].subreddit : i \in 1..Len(comments)})),
        SubredditGroups(submissions, {submissions[i].subreddit : i \in 1..Len(submissions)}))

\* lines 1027-1061: the topic of a post, split at ">"; "Other" is one level
TopicOf(name) ==
    IF name \in DOMAIN subreddits_dict /\ subreddits_dict[name].topic_level1 # "Other"
    THEN TopicPath(subreddits_dict[name])
    ELSE <<"Other">>

\* lines 1064-1084: one topic of Counter(topics).most_common(): the nodes above
\* the last level are found or appended, the last level is appended as a leaf
RECURSIVE InsertTopic(_, _, _)
InsertTopic(children, level_topics, count) ==
    IF Len(level_topics) = 1
    THEN Append(children, [name |-> level_topics[1], size |-> count])
    ELSE LET at == FirstNamed(children, level_topics[1])
         IN IF at # 0
            THEN [children EXCEPT ![at].children = InsertTopic(@, Tail(level_topics), count)]
            ELSE Append(children,
                        [name |-> level_topics[1],
                         children |-> InsertTopic(<<>>, Tail(level_topics), count)])

RECURSIVE InsertTopics(_, _)
InsertTopics(children, tallies) ==
    IF tallies = <<>> THEN children
    ELSE InsertTopics(InsertTopic(children, Head(tallies)[1], Head(tallies)[2]),
                      Tail(tallies))

\* lines 992-995, 1025-1084: the children of metrics_topic; topics holds the
\* topics of the comments, then of the submissions
metrics_topic ==
    LET topics == [i \in 1..Len(comments) |-> TopicOf(comments[i].subreddit)] \o
                  [i \in 1..Len(submissions) |-> TopicOf(submissions[i].subreddit)]
    IN InsertTopics(<<>>, MostCommon(topics))

(***************************************************************************)
(* results(): heatmap string and report                                    *)
(***************************************************************************)
\* Util.scale(val, src, dst) followed by int(): linear map of src onto dst
ScaleInt(val, src, dst) ==
    ((val - src[1]) * (dst[2] - dst[1])) \div (src[2] - src[1]) + dst[1]

\* hex(n)[2:] for 0 <= n <= 15
HexDigits == <<"1", "2", "3", "4", "5", "6", "7", "8", "9", "a", "b", "c", "d", "e", "f">>
Hex(n) == IF n = 0 THEN "0" ELSE HexDigits[n]

\* line 1531: min(heatmap)*1.0 or 1.0 (counts are never negative, so the
\* minimum is 0 exactly when some cell is 0)
HeatMin(hm) ==
    IF \E i \in DOMAIN hm : hm[i] = 0 THEN 1
    ELSE SetMin({hm[i] : i \in DOMAIN hm})

\* line 1532: max(heatmap), which is 0 when every cell is 0
HeatMax(hm) ==
    LET used == {i \in DOMAIN hm : hm[i] # 0}
    IN IF used = {} THEN 0 ELSE SetMax({hm[i] : i \in used})

\* line 1542: "0" * 1464
ZeroString == [i \in 1..HeatmapSize |-> "0"]

\* lines 1534-1540: the characters of the cells in `cells` (those holding a
\* count above 0) written over a string of "0"
RECURSIVE RenderCells(_, _, _, _, _)
RenderCells(str, cells, hm, hmin, hmax) ==
    IF cells = {} THEN str
    ELSE LET i == CHOOSE c \in cells : TRUE
         IN RenderCells(
                [str EXCEPT ![i + 1] = Hex(ScaleInt(hm[i], <<hmin, hmax>>, <<1, 15>>))],
                cells \ {i}, hm, hmin, hmax)

\* lines 1531-1542: the string, one character per cell
RenderHeatmap(hm) ==
    LET hmin == HeatMin(hm)
        hmax == HeatMax(hm)
    IN IF hmin < hmax
       THEN RenderCells(ZeroString, {i \in DOMAIN hm : hm[i] > 0}, hm, hmin, hmax)
       ELSE ZeroString

\* lines 824-837
FormatDates(md) ==
    [i \in 1..Len(md) |->
        [date |-> <<md[i].date[1], md[i].date[2], 1>>,
         comments |-> md[i].comments,
         submissions |-> md[i].submissions,
         posts |-> md[i].comments + md[i].submissions,
         comment_karma |-> md[i].comment_karma,
         submission_karma |-> md[i].submission_karma,
         karma |-> md[i].comment_karma + md[i].submission_karma]]

\* lines 1544-1626
Report(syn) ==
    LET dates == FormatDates(metrics_date)
    IN [first_post_date |-> Timegm(first_post_date[1]),
        lurk_period |-> lurk_period[1],
        comments_count |-> Len(comments),
        submissions_count |-> Len(submissions),
        best_comment |-> best_comment,
        worst_comment |-> worst_comment,
        best_submission |-> best_submission,
        worst_submission |-> worst_submission,
        latest_comment |-> latest_comment,
        latest_submission |-> latest_submission,
        computed_comment_karma |-> SeqSum([i \in 1..Len(dates) |-> dates[i].comment_karma]),
        computed_submission_karma |-> SeqSum([i \in 1..Len(dates) |-> dates[i].submission_karma]),
        synopsis |-> syn,
        date |-> dates,
        recent_activity_heatmap |-> RenderHeatmap(heatmap),
        recent_karma |-> recent_karma,
        recent_posts |-> recent_posts,
        type_domain_breakdown |-> submissions_by_type,
        subreddit |-> metrics_subreddit,
        topic |-> metrics_topic]

\* lines 813-821: the guard of results()
NoData == ~(comments # <<>> \/ submissions # <<>>)

\* lines 813-1628
results ==
    /\ pc = "constructed"
    /\ IF NoData
       THEN /\ Raise("NoDataError")
            /\ UNCHANGED report
       ELSE LET syn == Synopsis
            IN IF syn.err # "none"
               THEN /\ Raise(syn.err)
                    /\ UNCHANGED report
               ELSE /\ report' = Some(Report(syn.val))
                    /\ pc' = "returned"
                    /\ UNCHANGED error
    /\ UNCHANGED <<inputVars, ci, si, metricVars, commentPtrs, submissionPtrs,
                   commented_dates, submitted_dates, attrs, deriveVars, runVars>>

Next ==
    \/ process_comments
    \/ process_comment
    \/ process_submissions
    \/ process_submission
    \/ derive_attributes
    \/ results

Spec == Init /\ [][Next]_vars

(***************************************************************************)
(* Synopsis scenarios: posts of one instant in subreddits of the table,    *)
(* with the observations the text extraction reports for them              *)
(***************************************************************************)
SynInstant == At(Today - 5, 9, 0, 0)

SynComments ==
    { Comment("askwomen", SynInstant, 2, TRUE,
              <<Chunk("genders", "female"), Chunk("genders", "male")>>),
      Comment("gaming", SynInstant, 1, TRUE,
              <<Chunk("relationship_partners", "wife"), Chunk("possessions", "switch")>>),
      Comment("nintendo", SynInstant, 3, TRUE,
              <<Chunk("relationship_partners", "husband"), Chunk("orientations", "straight")>>) }

SynSubmissions ==
    { Submission("askwomen", SynInstant, 1, FALSE, FALSE, <<>>),
      Submission("bisexual", SynInstant, 1, TRUE, TRUE, <<Chunk("orientations", "bi")>>) }

InitSynopsis ==
    \E cs \in SeqsUpTo(SynComments, MaxSynComments),
       ss \in SeqsUpTo(SynSubmissions, MaxSynSubmissions) :
        /\ Construct(cs, ss, At(DayNumber(2015, 12, 15), 0, 1, 40), Today)
        /\ run = 1
        /\ first_report = None

SpecSynopsis == InitSynopsis /\ [][Next]_vars

(***************************************************************************)
(* Inference scenarios: posts in a default subreddit that names an         *)
(* attribute, next to posts in a subreddit that is not a default           *)
(***************************************************************************)
InferComments ==
    { Comment("twoxchromosomes", SynInstant, 1, FALSE, <<>>),
      Comment("askwomen", SynInstant, 2, FALSE, <<>>),
      Comment("nintendo", SynInstant, 3, TRUE,
              <<Chunk("relationship_partners", "wife"),
                Chunk("relationship_partners", "husband")>>) }

InferSubmissions ==
    { Submission("twoxchromosomes", SynInstant, 1, FALSE, FALSE, <<>>) }

InitInference ==
    \E cs \in SeqsUpTo(InferComments, MaxInferComments),
       ss \in SeqsUpTo(InferSubmissions, MaxInferSubmissions) :
        /\ Construct(cs, ss, At(DayNumber(2015, 12, 15), 0, 1, 40), Today)
        /\ run = 1
        /\ first_report = None

SpecInference == InitInference /\ [][Next]_vars

(***************************************************************************)
(* Text scenarios: posts for which the extraction would report an          *)
(* observation, with and without a first-person pronoun, in and out of a   *)
(* subreddit whose text is ignored, self posts and link posts              *)
(***************************************************************************)
GateComments ==
    { Comment("nintendo", SynInstant, 1, TRUE, <<Chunk("possessions", "switch")>>),
      Comment("nintendo", SynInstant, 2, FALSE, <<Chunk("possessions", "switch")>>),
      Comment("jokes", SynInstant, 3, TRUE, <<Chunk("genders", "male")>>) }

GateSubmissions ==
    { Submission("nintendo", SynInstant, 1, TRUE, TRUE, <<Chunk("pets", "dog")>>),
      Submission("nintendo", SynInstant, 2, FALSE, TRUE, <<Chunk("pets", "dog")>>),
      Submission("nintendo", SynInstant, 0, TRUE, FALSE, <<Chunk("pets", "dog")>>),
      Submission("jokes", SynInstant, 3, TRUE, TRUE, <<Chunk("pets", "cat")>>) }

InitGate ==
    \E cs \in SeqsUpTo(GateComments, MaxGateComments),
       ss \in SeqsUpTo(GateSubmissions, MaxGateSubmissions) :
        /\ Construct(cs, ss, At(DayNumber(2015, 12, 15), 0, 1, 40), Today)
        /\ run = 1
        /\ first_report = None

SpecGate == InitGate /\ [][Next]_vars

(***************************************************************************)
(* Summary scenarios: posts whose text yields several observations of one  *)
(* category, some of them with the same value                              *)
(***************************************************************************)
SummaryComments ==
    { Comment("nintendo", SynInstant, 1, TRUE,
              <<Chunk("pets", "dog"), Chunk("pets", "cat")>>),
      Comment("nintendo", SynInstant, 2, TRUE,
              <<Chunk("pets", "cat"), Chunk("possessions_extra", "switch")>>) }

SummarySubmissions ==
    { Submission("nintendo", SynInstant, 1, TRUE, TRUE,
                 <<Chunk("pets", "cat"), Chunk("possessions", "switch")>>) }

InitSummary ==
    \E cs \in SeqsUpTo(SummaryComments, MaxSummaryComments),
       ss \in SeqsUpTo(SummarySubmissions, MaxSummarySubmissions) :
        /\ Construct(cs, ss, At(DayNumber(2015, 12, 15), 0, 1, 40), Today)
        /\ run = 1
        /\ first_report = None

SpecSummary == InitSummary /\ [][Next]_vars

(***************************************************************************)
(* Topic scenarios: all comments in one subreddit and all submissions in   *)
(* one subreddit, over topics of every depth, excluded or not              *)
(***************************************************************************)
TopicCommentSubreddits == {"trees", "movies", "startrek", "gaming", "nintendo"}
TopicSubmissionSubreddits == {"christianity", "askreddit"}

InitTopics ==
    \E csub \in TopicCommentSubreddits, n \in 0..MaxTopicComments,
       ssub \in TopicSubmissionSubreddits, k \in 0..MaxTopicSubmissions :
        /\ Construct([i \in 1..n |-> Comment(csub, SynInstant, 1, FALSE, <<>>)],
                     [i \in 1..k |-> Submission(ssub, SynInstant, 1, FALSE, FALSE, <<>>)],
                     At(DayNumber(2015, 12, 15), 0, 1, 40), Today)
        /\ run = 1
        /\ first_report = None

SpecTopics == InitTopics /\ [][Next]_vars

(***************************************************************************)
(* Submission type scenarios: self posts and links to image hosts, image   *)
(* files, video hosts and other pages, in several subreddits               *)
(***************************************************************************)
TypeComments == { Comment("movies", SynInstant, 1, FALSE, <<>>) }

TypeSubmissions ==
    { Submission("nintendo", SynInstant, 1, TRUE, FALSE, <<>>),
      Submission("jokes", SynInstant, 2, FALSE, FALSE, <<>>),
      LinkSubmission("movies", SynInstant, 3, <<"i.", "imgur.com">>, <<"/abc">>),
      LinkSubmission("movies", SynInstant, 4, <<"example.com">>, <<"/pic.", "jpg">>),
      LinkSubmission("nintendo", SynInstant, 5, <<"youtube.com">>, <<"/watch">>),
      LinkSubmission("jokes", SynInstant, 6, <<"youtu.be">>, <<"/still.", "png">>) }

InitTypes ==
    \E cs \in SeqsUpTo(TypeComments, MaxTypeComments),
       ss \in SeqsUpTo(TypeSubmissions, MaxTypeSubmissions) :
        /\ Construct(cs, ss, At(DayNumber(2015, 12, 15), 0, 1, 40), Today)
        /\ run = 1
        /\ first_report = None

SpecTypes == InitTypes /\ [][Next]_vars

(***************************************************************************)
(* Tree scenarios: posts in subreddits of one topic, of another topic and  *)
(* of no topic, in every order                                             *)
(***************************************************************************)
TreeComments ==
    { Comment("nintendo", SynInstant, 3, FALSE, <<>>),
      Comment("gaming", SynInstant, 2, FALSE, <<>>),
      Comment("jokes", SynInstant, 1, FALSE, <<>>) }

TreeSubmissions ==
    { Submission("gaming", SynInstant, 5, TRUE, FALSE, <<>>),
      Submission("askreddit", SynInstant, 4, FALSE, FALSE, <<>>),
      Submission("movies", SynInstant, 7, FALSE, FALSE, <<>>) }

InitTrees ==
    \E cs \in SeqsUpTo(TreeComments, MaxTreeComments),
       ss \in SeqsUpTo(TreeSubmissions, MaxTreeSubmissions) :
        /\ Construct(cs, ss, At(DayNumber(2015, 12, 15), 0, 1, 40), Today)
        /\ run = 1
        /\ first_report = None

SpecTrees == InitTrees /\ [][Next]_vars

(***************************************************************************)
(* Order scenarios: posts of different days, months and weekdays that      *)
(* share an hour of the day, given in every order                          *)
(***************************************************************************)
OrderComments ==
    { Comment("gaming", At(Today - 5, 9, 0, 0), 2, FALSE, <<>>),
      Comment("gaming", At(Today - 41, 9, 30, 0), 0 - 1, FALSE, <<>>) }

OrderSubmissions ==
    { Submission("gaming", At(Today - 5, 9, 0, 0), 4, FALSE, FALSE, <<>>),
      Submission("gaming", At(Today - 4, 9, 15, 0), 1, FALSE, FALSE, <<>>) }

InitOrder ==
    \E cs \in SeqsUpTo(OrderComments, MaxOrderComments),
       ss \in SeqsUpTo(OrderSubmissions, MaxOrderSubmissions) :
        /\ Construct(cs, ss, At(DayNumber(2015, 12, 15), 0, 1, 40), Today)
        /\ run = 1
        /\ first_report = None

SpecOrder == InitOrder /\ [][Next]_vars

(***************************************************************************)
(* A second run of the engine on the same input on the same day            *)
(***************************************************************************)
\* the report of the first run is kept and a new object is constructed
\* from the same comments, submissions and account metadata
Rerun ==
    /\ pc = "returned"
    /\ run = 1
    /\ run' = 2
    /\ first_report' = report
    /\ UNCHANGED inputVars
    /\ pc' = "process_comments"
    /\ error' = "none"
    /\ ci' = 1
    /\ si' = 1
    /\ metrics_date' = DateBuckets(today, DateOf(signup_date))
    /\ metrics_hour' = [h \in 0..23 |-> Counters]
    /\ metrics_weekday' = [w \in 0..6 |-> Counters]
    /\ heatmap' = [i \in 0..(HeatmapSize - 1) |-> 0]
    /\ recent_karma' = [d \in 0..(HeatmapDays - 1) |-> 0]
    /\ recent_posts' = [d \in 0..(HeatmapDays - 1) |-> 0]
    /\ submissions_by_type' = [t \in SubmissionTypes |-> <<>>]
    /\ best_comment' = None
    /\ worst_comment' = None
    /\ earliest_comment' = None
    /\ latest_comment' = None
    /\ best_submission' = None
    /\ worst_submission' = None
    /\ earliest_submission' = None
    /\ latest_submission' = None
    /\ commented_dates' = <<>>
    /\ submitted_dates' = <<>>
    /\ attrs' = [c \in ObsCategories |-> <<>>]
    /\ derived_attributes' = [k \in DerivedKeys |-> <<>>]
    /\ first_post_date' = None
    /\ lurk_period' = None
    /\ clock' = <<>>
    /\ report' = None

InitRerun ==
    \E cs \in SeqsUpTo(TimedComments, MaxRerunPosts),
       ss \in SeqsUpTo(TimedSubmissions, MaxRerunPosts),
       sd \in Signups :
        /\ PostsInLifetime(cs, ss, sd)
        /\ Construct(cs, ss, sd, Today)
        /\ run = 1
        /\ first_report = None

NextRerun ==
    \/ Next
    \/ Rerun

SpecRerun == InitRerun /\ [][NextRerun]_vars

(***************************************************************************)
(* Properties                                                              *)
(***************************************************************************)
\* every post has been processed and no exception left the constructor
Processed == pc \in {"derive_attributes", "constructed", "returned"}
\* derive_attributes has run as well
Derived == pc \in {"constructed", "returned"}

\* sum of f over the finite set S
RECURSIVE SumOver(_, _)
SumOver(S, f) ==
    IF S = {} THEN 0
    ELSE LET x == CHOOSE y \in S : TRUE
         IN f[x] + SumOver(S \ {x}, f)

\* sum of all cells of an array of counters (cells holding 0 add nothing)
ArraySum(a) == SumOver({i \in DOMAIN a : a[i] # 0}, a)

\* C1: with zero comments and zero submissions, results() raises the no-data
\* error and returns no report, and no per-post or synthesis step ever ran:
\* the object is as __init__ left it before process().
C1_NoDataFails ==
    (comments = <<>> /\ submissions = <<>>) =>
        /\ pc \in {"process_comments", "process_submissions", "constructed", "raised"}
        /\ (pc = "raised" => error = "NoDataError")
        /\ report = None
        /\ commented_dates = <<>> /\ submitted_dates = <<>>
        /\ clock = <<>> /\ lurk_period = None /\ first_post_date = None
        /\ \A k \in DerivedKeys : derived_attributes[k] = <<>>
        /\ ArraySum(heatmap) = 0

C1_Witness ==
    /\ comments = <<>> /\ submissions = <<>>
    /\ pc = "raised" /\ error = "NoDataError" /\ report = None

\* C2: once every post is processed, the date buckets' comments sum to the
\* number of comments and their submissions to the number of submissions,
\* each post being counted in the bucket of its (year, month).
C2_EveryPostBucketed ==
    Processed =>
        /\ SeqSum([i \in 1..Len(metrics_date) |-> metrics_date[i].comments]) = Len(comments)
        /\ SeqSum([i \in 1..Len(metrics_date) |-> metrics_date[i].submissions])
                = Len(submissions)

\* is the post's date later than today - 60 days and not later than today
InTrailingWindow(post) ==
    /\ DateOf(post.created_utc) > today - 60
    /\ DateOf(post.created_utc) <= today

\* C3: after all posts are processed, the heatmap cells sum to the number of
\* posts dated strictly later than today - 60 days (and not later than today).
C3_HeatmapSum ==
    Processed =>
        ArraySum(heatmap) =
            Cardinality({i \in 1..Len(comments) : InTrailingWindow(comments[i])}) +
            Cardinality({i \in 1..Len(submissions) : InTrailingWindow(submissions[i])})

\* a comment and a submission inside the window and a post on day 0 outside it
C3_Witness ==
    /\ Processed
    /\ \E i \in 1..Len(comments) : InTrailingWindow(comments[i])
    /\ \E i \in 1..Len(submissions) : InTrailingWindow(submissions[i])
    /\ \E i \in 1..Len(comments) : DateOf(comments[i].created_utc) = today - 60
    /\ ArraySum(heatmap) = 2

\* the synopsis of the returned report, and one of its lists ([] when absent)
ReportSynopsis == report[1].synopsis
SynopsisList(key, subkey) ==
    IF key \in DOMAIN ReportSynopsis /\ subkey \in DOMAIN ReportSynopsis[key]
    THEN ReportSynopsis[key][subkey] ELSE <<>>

\* C4: in every report, gender, orientation and relationship_partner each
\* have at most one entry in their data list, whatever was observed and
\* whatever topic entries were merged afterwards.
C4_SingleValuedData ==
    pc = "returned" =>
        \A k \in {"gender", "orientation", "relationship_partner"} :
            Len(SynopsisList(k, "data")) <= 1

\* C5 as claimed: every account with at least one post gets a lurk period
\* with from strictly before to.
C5_LurkStrict ==
    (Derived /\ HasPosts) =>
        /\ lurk_period # None
        /\ lurk_period[1].from < lurk_period[1].to

\* all post timestamps, comments first
PostTimes ==
    [i \in 1..Len(comments) |-> comments[i].created_utc] \o
    [i \in 1..Len(submissions) |-> submissions[i].created_utc]

\* C5 as amended: every account with at least one post gets a lurk period with
\* from <= to; from = to only when two points of a timeline coincide (two
\* posts of the same timestamp, or a post made at the instant read as now).
C5_LurkOrdered ==
    (Derived /\ HasPosts) =>
        /\ lurk_period # None
        /\ lurk_period[1].from <= lurk_period[1].to
        /\ lurk_period[1].from = lurk_period[1].to =>
                \/ \E i, j \in 1..Len(PostTimes) : i # j /\ PostTimes[i] = PostTimes[j]
                \/ \E i \in 1..Len(PostTimes) : PostTimes[i] \in Range(clock)

\* two comments given newest first and a submission, and a period of positive length
C5_Witness ==
    /\ Derived
    /\ Len(comments) = 2 /\ comments[1].created_utc > comments[2].created_utc
    /\ submissions # <<>>
    /\ lurk_period # None
    /\ lurk_period[1].from < lurk_period[1].to

\* the ascending arrangement of the timestamps s
Ascending(s) ==
    CHOOSE t \in [1..Len(s) -> Range(s)] :
        /\ \A i, j \in 1..Len(s) : i < j => t[i] <= t[j]
        /\ \A v \in Range(s) :
                Cardinality({i \in 1..Len(s) : t[i] = v}) =
                Cardinality({i \in 1..Len(s) : s[i] = v})

\* a timeline: the timestamps ascending, then the instant read as now
Timeline(s, now) == Ascending(s) \o <<now>>

\* the gap value of two points: the sub-day remainder of their difference
GapValue(a, b) == (b - a) % 86400

MaxGap(tl) == SetMax({GapValue(tl[i], tl[i + 1]) : i \in 1..(Len(tl) - 1)})

\* the three timelines and those of at least 2 points
CommentTimeline == Timeline([i \in 1..Len(comments) |-> comments[i].created_utc], clock[2])
SubmissionTimeline ==
    Timeline([i \in 1..Len(submissions) |-> submissions[i].created_utc], clock[3])
UnionTimeline == Timeline(PostTimes, clock[1])
QualifyingTimelines ==
    {tl \in {CommentTimeline, SubmissionTimeline, UnionTimeline} : Len(tl) >= 2}

\* C6: the reported lurk period is a maximum-gap pair of consecutive points of
\* a timeline of at least 2 points, and its gap value is <= the maximum gap of
\* every timeline of at least 2 points (minimum of the maxima).
C6_MinOfMaxima ==
    (Derived /\ HasPosts) =>
        /\ lurk_period # None
        /\ \E tl \in QualifyingTimelines : \E i \in 1..(Len(tl) - 1) :
                /\ tl[i] = lurk_period[1].from
                /\ tl[i + 1] = lurk_period[1].to
                /\ GapValue(tl[i], tl[i + 1]) = MaxGap(tl)
        /\ \A tl \in QualifyingTimelines :
                GapValue(lurk_period[1].from, lurk_period[1].to) <= MaxGap(tl)

\* comments and submissions whose timelines have different maxima
C6_Witness ==
    /\ Derived
    /\ comments # <<>> /\ submissions # <<>>
    /\ MaxGap(CommentTimeline) < MaxGap(SubmissionTimeline)
    /\ GapValue(lurk_period[1].from, lurk_period[1].to) = MaxGap(CommentTimeline)

\* C7: a second run on the same comments, submissions and account metadata
\* with the same today returns the same report as the first, in every field.
C7_SameReport ==
    (run = 2 /\ pc = "returned") => report = first_report

\* an account whose only posts are n submissions in r/askwomen (gender: female)
OnlyAskWomenSubmissions ==
    /\ comments = <<>>
    /\ Len(submissions) >= 3 /\ Len(submissions) < 10
    /\ \A i \in 1..Len(submissions) : submissions[i].subreddit = "askwomen"

ValueCounts(list) == [i \in 1..Len(list) |-> <<list[i].value, list[i].count>>]

C9_RenderedCells ==
    pc = "returned" =>
        \A i \in 0..(HeatmapSize - 1) :
            (report[1].recent_activity_heatmap[i + 1] = "0") <=> (heatmap[i] = 0)

\* the (year, month) keys of the pre-allocated buckets
BucketKeys == {metrics_date[i].date : i \in 1..Len(metrics_date)}

\* a post already processed whose month has no bucket
BucketMiss ==
    \/ \E i \in 1..(ci - 1) : YearMonth(DateOf(comments[i].created_utc)) \notin BucketKeys
    \/ \E i \in 1..(si - 1) : YearMonth(DateOf(submissions[i].created_utc)) \notin BucketKeys

\* C10: when a processed post matches no date bucket the aggregation stops
\* with an error; it does not go on to build a report.
C10_MissRaises == BucketMiss => pc = "raised"

\* months counted from year 0, to compare (year, month) keys
MonthIndex(ym) == ym[1] * 12 + ym[2]

\* C11: for every signup date <= today the date table has exactly one bucket
\* for each calendar month from the signup month through the month of today,
\* keys unique and ascending, all counters zero before any post is processed.
C11_BucketsSpanLifetime ==
    LET lo == MonthIndex(YearMonth(DateOf(signup_date)))
        hi == MonthIndex(YearMonth(today))
    IN /\ Len(metrics_date) = hi - lo + 1
       /\ \A i \in 1..Len(metrics_date) : MonthIndex(metrics_date[i].date) = lo + i - 1
       /\ (ci = 1 /\ si = 1) =>
              \A i \in 1..Len(metrics_date) :
                  /\ metrics_date[i].comments = 0
                  /\ metrics_date[i].submissions = 0
                  /\ metrics_date[i].comment_karma = 0
                  /\ metrics_date[i].submission_karma = 0

\* the bar the specification sets for a subreddit: 10 posts for a default
\* subreddit, 3 otherwise
RequiredCount(name) ==
    IF name \in default_subs THEN MIN_THRESHOLD_FOR_DEFAULT ELSE MIN_THRESHOLD

\* how many subreddits of a tally name attribute k and reach their bar
Contributions(tallies, k) ==
    Cardinality({i \in 1..Len(tallies) :
        /\ tallies[i][1] \in DOMAIN subreddits_dict
        /\ subreddits_dict[tallies[i][1]].attribute = k
        /\ tallies[i][2] >= RequiredCount(tallies[i][1])})

\* C12: in the subreddit-driven inference a default subreddit contributes its
\* value only from 10 comments (or submissions) on, a subreddit that is not a
\* default from 3 on; with no partner observed these are the only derived
\* observations.
C12_DefaultNeedsTen ==
    (Derived /\ attrs["relationship_partners"] = <<>>) =>
        \A k \in DerivedKeys :
            Len(derived_attributes[k]) =
                Contributions(commented_subreddits, k) + Contributions(submitted_subreddits, k)

\* the relationship-partner values observed in the text
PartnersObserved ==
    {attrs["relationship_partners"][i][1] : i \in 1..Len(attrs["relationship_partners"])}

\* C13: when a partner observation has value wife a derived gender male is
\* added, and when one has value husband a derived gender female is added;
\* with both observed both are added.
C13_BothPartnerRules ==
    Derived =>
        /\ "wife" \in PartnersObserved => "male" \in Range(derived_attributes["gender"])
        /\ "husband" \in PartnersObserved => "female" \in Range(derived_attributes["gender"])

\* the subreddits posted in, and the comments + submissions of one of them
PostedSubreddits ==
    {comments[i].subreddit : i \in 1..Len(comments)} \cup
    {submissions[i].subreddit : i \in 1..Len(submissions)}
CombinedCount(name) ==
    Cardinality({i \in 1..Len(comments) : comments[i].subreddit = name}) +
    Cardinality({i \in 1..Len(submissions) : submissions[i].subreddit = name})

\* no other subreddit posted in has the topic of name
AloneOnTopic(name) ==
    \A other \in PostedSubreddits \cap DOMAIN subreddits_dict :
        TopicPath(subreddits_dict[other]) = TopicPath(subreddits_dict[name]) => other = name

\* C14: a subreddit counts toward its topic only from 3 comments + submissions
\* on, and a default subreddit only from 10 on: below its bar a subreddit that
\* is alone on its topic produces no topic-derived synopsis entry.
C14_TopicBar ==
    pc = "returned" =>
        \A name \in PostedSubreddits \cap DOMAIN subreddits_dict :
            LET lt == LevelTopics(TopicPath(subreddits_dict[name]))
                entries == SynopsisList(TopicKey(lt), "data")
            IN (CombinedCount(name) < RequiredCount(name) /\ AloneOnTopic(name)) =>
                   \A i \in 1..Len(entries) : entries[i].value # Lower(Coalesce(lt))

\* the posts handled so far are a prefix of each list, comments before the
\* first submission, and derive_attributes has run only after all of them
ProcessedInOrder ==
    /\ commented_dates = [i \in 1..(ci - 1) |-> comments[i].created_utc]
    /\ submitted_dates = [i \in 1..(si - 1) |-> submissions[i].created_utc]
    /\ (si > 1 \/ pc \in {"process_submissions", "process_submission"}) =>
            ci = Len(comments) + 1
    /\ clock # <<>> =>
            /\ HasPosts
            /\ ci = Len(comments) + 1
            /\ si = Len(submissions) + 1

\* one post at a time; nothing is processed or derived again after
\* derive_attributes has run
OneStepAtATime ==
    /\ ci' \in {ci, ci + 1}
    /\ si' \in {si, si + 1}
    /\ clock # <<>> => (clock' = clock /\ ci' = ci /\ si' = si
                          /\ derived_attributes' = derived_attributes
                          /\ lurk_period' = lurk_period)

\* C15: every comment is processed, in source-array order, before any
\* submission (submissions then in source-array order); derive_attributes
\* starts only after the last post, runs exactly once, and only when there is
\* at least one post.
C15_RunOrder == [](ProcessedInOrder) /\ [][OneStepAtATime]_vars

\* derive_attributes has run on two comments and a submission
C15_Witness ==
    /\ clock # <<>>
    /\ Len(comments) = 2 /\ ci = 3
    /\ Len(submissions) = 1 /\ si = 2
    /\ comments[1].created_utc # comments[2].created_utc

\* how many observations name the post with this permalink as their source
ObservationsFrom(permalink) ==
    SumOver(ObsCategories,
            [c \in ObsCategories |->
                Cardinality({i \in 1..Len(attrs[c]) : attrs[c][i][2] = permalink})])

\* the condition under which a post's text goes to the extraction
PassesGate(post, is_comment) ==
    /\ ~(post.subreddit \in ignore_text_subs)
    /\ post.pronoun = TRUE
    /\ (~is_comment) => post.is_self = TRUE

\* C16: a processed post has added its observations if and only if its
\* subreddit is not on the ignore-text list and its text has a first-person
\* pronoun (and, for a submission, it is a self post); a post failing the gate
\* has added none, and is counted in the hour table all the same.
C16_TextGate ==
    /\ \A i \in 1..(ci - 1) :
            ObservationsFrom(<<"c", i>>) =
                IF PassesGate(comments[i], TRUE) THEN Len(comments[i].chunks) ELSE 0
    /\ \A i \in 1..(si - 1) :
            ObservationsFrom(<<"s", i>>) =
                IF PassesGate(submissions[i], FALSE) THEN Len(submissions[i].chunks) ELSE 0
    /\ SumOver(0..23, [h \in 0..23 |-> metrics_hour[h].comments]) = ci - 1
    /\ SumOver(0..23, [h \in 0..23 |-> metrics_hour[h].submissions]) = si - 1

\* a comment in an ignored subreddit left nothing and a self post was extracted
C16_Witness ==
    /\ ci = 2 /\ si = 2
    /\ comments[1].subreddit = "jokes" /\ comments[1].pronoun
    /\ ObservationsFrom(<<"c", 1>>) = 0
    /\ ObservationsFrom(<<"s", 1>>) = 1

\* the observation lists that feed the data sub-key of a synopsis category
DirectLists(key) ==
    {SynopsisPlan[i][1] : i \in {j \in 1..Len(SynopsisPlan) :
        SynopsisPlan[j][2] = key /\ SynopsisPlan[j][3] = "data"}}

\* C17: in every category of the report the entries under data come only from
\* direct text-derived observations; subreddit-inferred and topic-inferred
\* entries are under data_derived, never under data.
C17_DataIsDirect ==
    pc = "returned" =>
        \A key \in DOMAIN ReportSynopsis :
            LET entries == SynopsisList(key, "data")
            IN \A i \in 1..Len(entries) :
                \E c \in DirectLists(key) : \E j \in 1..Len(attrs[c]) :
                    attrs[c][j][1] = entries[i].value

\* the first position of posts holding the largest / smallest score
FirstBest(posts) ==
    SetMin({i \in 1..Len(posts) : \A j \in 1..Len(posts) : posts[j].score <= posts[i].score})
FirstWorst(posts) ==
    SetMin({i \in 1..Len(posts) : \A j \in 1..Len(posts) : posts[j].score >= posts[i].score})

\* C18: once all comments are processed best_comment is the first comment in
\* input order with the maximum score and worst_comment the first with the
\* minimum score; the same for submissions.  A single post is both.
C18_FirstExtremes ==
    /\ (comments # <<>> /\ ci = Len(comments) + 1) =>
            /\ best_comment = <<FirstBest(comments)>>
            /\ worst_comment = <<FirstWorst(comments)>>
    /\ (submissions # <<>> /\ si = Len(submissions) + 1) =>
            /\ best_submission = <<FirstBest(submissions)>>
            /\ worst_submission = <<FirstWorst(submissions)>>

\* two comments of equal score and a submission, all processed
C18_Witness ==
    /\ Len(comments) = 2 /\ ci = 3
    /\ comments[1].score = comments[2].score
    /\ best_comment = <<1>> /\ worst_comment = <<1>>
    /\ Len(submissions) = 1 /\ si = 2
    /\ best_submission = <<1>> /\ worst_submission = <<1>>

\* d = (post date - (today - 60 days)) in days, and the cell of a post
DayOffset(post) == (post.created_utc \div 86400) - (today - 60)
CellOf(post, is_comment) ==
    LET hour == (post.created_utc % 86400) \div 3600
    IN IF is_comment THEN DayOffset(post) * 24 + hour ELSE (DayOffset(post) - 1) * 24 + hour

\* the processed comments / submissions that update cell i
CommentsAt(i) ==
    {k \in 1..(ci - 1) : DayOffset(comments[k]) > 0 /\ CellOf(comments[k], TRUE) = i}
SubmissionsAt(i) ==
    {k \in 1..(si - 1) : DayOffset(submissions[k]) > 0 /\ CellOf(submissions[k], FALSE) = i}

\* the cells some processed post updates
UpdatedCells ==
    {CellOf(comments[k], TRUE) : k \in {j \in 1..(ci - 1) : DayOffset(comments[j]) > 0}} \cup
    {CellOf(submissions[k], FALSE) : k \in {j \in 1..(si - 1) : DayOffset(submissions[j]) > 0}}

\* C19: a post updates the heatmap only when d > 0; a comment increments cell
\* d*24 + hour and a submission cell (d-1)*24 + hour; for posts dated no later
\* than today every such index is within 0..1463 and no update fails or wraps.
\* (No other cell is written: looked at while process() runs, the last time the
\* heatmap changes.)
C19_HeatmapCells ==
    /\ error # "IndexError"
    /\ UpdatedCells \subseteq 0..(HeatmapSize - 1)
    /\ \A i \in UpdatedCells :
            heatmap[i] = Cardinality(CommentsAt(i)) + Cardinality(SubmissionsAt(i))
    /\ pc \in {"process_comment", "process_submissions", "process_submission",
               "derive_attributes"} =>
            {i \in 0..(HeatmapSize - 1) : heatmap[i] # 0} \subseteq UpdatedCells

\* a comment of today (d = 60) and a submission of 59 days ago (d = 1)
C19_Witness ==
    /\ Processed
    /\ \E k \in 1..Len(comments) : DayOffset(comments[k]) = 60
    /\ \E k \in 1..Len(submissions) : DayOffset(submissions[k]) = 1
    /\ heatmap[0] = 1
    /\ heatmap[60 * 24 + 9] = 1

\* C20: the reported period is, in the timeline it was taken from, the pair of
\* consecutive timestamps with the longest elapsed time: no other consecutive
\* pair of that timeline is further apart in elapsed seconds.
C20_LongestElapsed ==
    (Derived /\ HasPosts) =>
        /\ lurk_period # None
        /\ \E tl \in QualifyingTimelines : \E i \in 1..(Len(tl) - 1) :
                /\ tl[i] = lurk_period[1].from
                /\ tl[i + 1] = lurk_period[1].to
                /\ \A j \in 1..(Len(tl) - 1) : tl[j + 1] - tl[j] <= tl[i + 1] - tl[i]

\* the multi-valued categories: (observation list, synopsis key, sub-key)
MultiValued ==
    { <<"places_lived", "places_lived", "data">>,
      <<"places_lived_extra", "places_lived", "data_extra">>,
      <<"places_grew_up", "places_grew_up", "data">>,
      <<"places_grew_up_extra", "places_grew_up", "data_extra">>,
      <<"family_members", "family_members", "data">>,
      <<"pets", "pets", "data">>,
      <<"favorites", "favorites", "data">>,
      <<"attributes", "attributes", "data">>,
      <<"attributes_extra", "attributes", "data_extra">>,
      <<"possessions", "possessions", "data">>,
      <<"possessions_extra", "possessions", "data_extra">> }

\* positions of the observations of value v, and the first of them
Occurrences(obs, v) == {j \in 1..Len(obs) : obs[j][1] = v}
FirstSeen(obs, v) == SetMin(Occurrences(obs, v))

\* the sources of the observations of value v, in observation order
RECURSIVE SourcesOf(_, _)
SourcesOf(obs, v) ==
    IF obs = <<>> THEN <<>>
    ELSE (IF Head(obs)[1] = v THEN <<Head(obs)[2]>> ELSE <<>>) \o SourcesOf(Tail(obs), v)

\* C21: the summary list of a multi-valued category has exactly one entry per
\* distinct observed value; an entry's count is the number of observations of
\* the value and the length of its sources (in observation order); entries are
\* in descending count, ties in first-seen order.
C21_SummaryLists ==
    pc = "returned" =>
        \A m \in MultiValued :
            LET obs == attrs[m[1]]
                list == SynopsisList(m[2], m[3])
            IN /\ {list[i].value : i \in 1..Len(list)} = {obs[j][1] : j \in 1..Len(obs)}
               /\ \A i, k \in 1..Len(list) : list[i].value = list[k].value => i = k
               /\ \A i \in 1..Len(list) :
                    /\ list[i].count = Cardinality(Occurrences(obs, list[i].value))
                    /\ list[i].sources = SourcesOf(obs, list[i].value)
                    /\ Len(list[i].sources) = list[i].count
               /\ \A i, k \in 1..Len(list) : i < k =>
                    \/ list[i].count > list[k].count
                    \/ /\ list[i].count = list[k].count
                       /\ FirstSeen(obs, list[i].value) < FirstSeen(obs, list[k].value)

\* dog was seen first, cat twice: cat is listed first with both its sources
C21_Witness ==
    /\ pc = "returned"
    /\ Len(attrs["pets"]) = 3
    /\ attrs["pets"][1][1] = "dog"
    /\ Len(SynopsisList("pets", "data")) = 2
    /\ SynopsisList("pets", "data")[1].value = "cat"
    /\ SynopsisList("pets", "data")[1].sources = << <<"c", 1>>, <<"c", 2>> >>

\* the topic levels of a posted subreddit that are not Generic, lower case
LevelsOf(name) ==
    LET row == subreddits_dict[name]
        all == << Lower(row.topic_level1), Lower(row.topic_level2), Lower(row.topic_level3) >>
    IN SelectSeq(all, LAMBDA x : x # "" /\ x # "generic")

ExcludedCategories == {"general", "drugs", "meta", "adult and nsfw", "other"}
ExcludedLabels == {"religion and spirituality", "more interests", "alternative"}

\* the values of all entries of the data lists of the report's synopsis
DataValues ==
    UNION {{SynopsisList(key, "data")[i].value : i \in 1..Len(SynopsisList(key, "data"))} :
            key \in DOMAIN ReportSynopsis}

\* the subreddit's topic has an excluded category at its first or second
\* level, or its most specific level is an excluded label
TopicExcluded(name) ==
    LET lv == LevelsOf(name)
    IN \/ \E i \in 1..Len(lv) : i <= 2 /\ lv[i] \in ExcludedCategories
       \/ lv[Len(lv)] \in ExcludedLabels

\* C22: a topic path with an excluded category (general, drugs, meta, adult and
\* nsfw, other) at its first or second non-generic level contributes no entry
\* to any synopsis category, the fallback category other included; nor does a
\* topic whose coalesced label is in the coalesced-exclusion list.
C22_ExcludedTopics ==
    pc = "returned" =>
        /\ \A name \in PostedSubreddits \cap DOMAIN subreddits_dict :
                (TopicExcluded(name) /\ AloneOnTopic(name)) =>
                    LevelsOf(name)[Len(LevelsOf(name))] \notin DataValues
        /\ (\A name \in PostedSubreddits \cap DOMAIN subreddits_dict : TopicExcluded(name))
                => DataValues = {}

RecognizedGroups ==
    {"business", "entertainment", "gaming", "hobbies and interests", "lifestyle",
     "locations", "music", "science", "sports", "technology", "news and politics"}

\* the subreddit's topic is under a recognized group and has fewer levels
\* than the group requires
TooShallow(name) ==
    LET lv == LevelsOf(name)
    IN /\ lv[1] \in RecognizedGroups
       /\ Len(lv) < (IF lv[1] \in {"entertainment", "locations"} THEN 3 ELSE 2)

\* C23: a topic under a recognized group with fewer non-generic levels than the
\* group's minimum (3 for entertainment and locations, 2 otherwise) produces no
\* synopsis entry under any key, and processing it raises no error.
C23_MinimumDepth ==
    /\ error \in {"none", "NoDataError"}
    /\ pc = "returned" =>
        /\ \A name \in PostedSubreddits \cap DOMAIN subreddits_dict :
                (TooShallow(name) /\ AloneOnTopic(name)) =>
                    LevelsOf(name)[Len(LevelsOf(name))] \notin DataValues
        /\ (\A name \in PostedSubreddits \cap DOMAIN subreddits_dict : TooShallow(name))
                => DataValues = {}

\* three comments under Entertainment > Movies: two levels where three are
\* required, and the report has no topic entry
C23_Witness ==
    /\ pc = "returned"
    /\ Len(comments) = 3
    /\ comments[1].subreddit = "movies"
    /\ submissions = <<>>
    /\ DataValues = {}

\* the type of a submission by the rules in their order: Self, Image, Video, Other
IsSelfDomain(sb) == Len(sb.domain) >= 1 /\ sb.domain[1] = "self."
IsImage(sb) ==
    \/ sb.url_path[Len(sb.url_path)] \in {"jpg", "png", "gif", "bmp"}
    \/ sb.domain[Len(sb.domain)] \in {"imgur.com", "flickr.com"}
IsVideo(sb) ==
    sb.domain[Len(sb.domain)] \in {"youtube.com", "youtu.be", "vimeo.com", "liveleak.com"}
TypeOf(sb) ==
    CASE IsSelfDomain(sb) -> "Self"
      [] ~IsSelfDomain(sb) /\ IsImage(sb) -> "Image"
      [] ~IsSelfDomain(sb) /\ ~IsImage(sb) /\ IsVideo(sb) -> "Video"
      [] OTHER -> "Other"
LeafNameOf(sb) == IF TypeOf(sb) = "Self" THEN <<sb.subreddit>> ELSE sb.domain

\* the processed submissions counted by the leaf called name under type t
CountedBy(t, name) ==
    {k \in 1..(si - 1) : TypeOf(submissions[k]) = t /\ LeafNameOf(submissions[k]) = name}

\* C24: every processed submission has exactly one type, the first that
\* matches of Self, Image, Video, Other, and is counted once in the leaf of
\* that type named by its domain (its subreddit for Self): leaf names are
\* unique per type, a leaf's size is the number of its submissions, and the
\* sizes of all leaves sum to the number of processed submissions.
C24_TypeTree ==
    /\ DOMAIN submissions_by_type = {"Self", "Image", "Video", "Other"}
    /\ \A t \in DOMAIN submissions_by_type :
            LET leaves == submissions_by_type[t]
            IN /\ \A i, k \in 1..Len(leaves) : leaves[i].name = leaves[k].name => i = k
               /\ \A i \in 1..Len(leaves) :
                    /\ leaves[i].size >= 1
                    /\ leaves[i].size = Cardinality(CountedBy(t, leaves[i].name))
    /\ \A k \in 1..(si - 1) :
            \E i \in 1..Len(submissions_by_type[TypeOf(submissions[k])]) :
                submissions_by_type[TypeOf(submissions[k])][i].name = LeafNameOf(submissions[k])
    /\ SumOver(DOMAIN submissions_by_type,
               [t \in DOMAIN submissions_by_type |->
                    SeqSum([i \in 1..Len(submissions_by_type[t]) |->
                                submissions_by_type[t][i].size])]) = si - 1

\* two links to image files on a video host: one Image leaf of size 2
C24_Witness ==
    /\ si = 3
    /\ submissions_by_type["Image"] = << [name |-> <<"youtu.be">>, size |-> 2] >>
    /\ submissions_by_type["Video"] = <<>>

\* the subreddits of the posts in processing order: all comments, then all
\* submissions
PostNames ==
    [i \in 1..Len(comments) |-> comments[i].subreddit] \o
    [i \in 1..Len(submissions) |-> submissions[i].subreddit]

NamesOf(children) == [i \in 1..Len(children) |-> children[i].name]

\* the level-1 node of a subreddit: its table topic, Other when it has none
Level1Of(name) ==
    IF name \in DOMAIN subreddits_dict THEN subreddits_dict[name].topic_level1 ELSE "Other"

\* the subreddits under a level-1 node, in the order they were first seen
SubredditsSeenUnder(level1) ==
    Distinct(SelectSeq(PostNames, LAMBDA n : Level1Of(n) = level1))

\* the topic levels of every post in processing order
PostTopics ==
    [i \in 1..Len(PostNames) |->
        IF PostNames[i] \in DOMAIN subreddits_dict
        THEN LET row == subreddits_dict[PostNames[i]]
             IN << row.topic_level1,
                   IF row.topic_level2 = "" THEN "Generic" ELSE row.topic_level2,
                   IF row.topic_level3 = "" THEN "Generic" ELSE row.topic_level3 >>
        ELSE <<"Other">>]

\* the names that follow prefix in the topics of the posts, in the order they
\* were first seen
TopicsSeenUnder(prefix) ==
    LET below == SelectSeq(PostTopics,
                           LAMBDA t : Len(t) > Len(prefix) /\ SubSeq(t, 1, Len(prefix)) = prefix)
    IN Distinct([i \in 1..Len(below) |-> below[i][Len(prefix) + 1]])

HasChildren(node) == "children" \in DOMAIN node

SubredditTreeFirstSeen ==
    LET tree == report[1].subreddit
    IN /\ NamesOf(tree) = Distinct([i \in 1..Len(PostNames) |-> Level1Of(PostNames[i])])
       /\ \A i \in 1..Len(tree) :
            NamesOf(tree[i].children) = SubredditsSeenUnder(tree[i].name)

TopicTreeFirstSeen ==
    LET tree == report[1].topic
    IN /\ NamesOf(tree) = TopicsSeenUnder(<<>>)
       /\ \A i \in 1..Len(tree) : HasChildren(tree[i]) =>
            /\ NamesOf(tree[i].children) = TopicsSeenUnder(<<tree[i].name>>)
            /\ \A j \in 1..Len(tree[i].children) : HasChildren(tree[i].children[j]) =>
                    NamesOf(tree[i].children[j].children) =
                        TopicsSeenUnder(<<tree[i].name, tree[i].children[j].name>>)

TypeTreeFirstSeen ==
    \A t \in DOMAIN report[1].type_domain_breakdown :
        LET mine == SelectSeq(submissions, LAMBDA sb : TypeOf(sb) = t)
        IN NamesOf(report[1].type_domain_breakdown[t]) =
              Distinct([i \in 1..Len(mine) |-> LeafNameOf(mine[i])])

\* C25: in the subreddit tree, the topic tree and the type/domain tree of the
\* report the children of every parent are in first-seen order, where the posts
\* are seen in processing order: all comments, then all submissions.
C25_FirstSeenOrder ==
    pc = "returned" =>
        /\ SubredditTreeFirstSeen
        /\ TopicTreeFirstSeen
        /\ TypeTreeFirstSeen

\* the leaves of the subreddit tree as <<i, j>>: child j of level-1 node i
SubredditLeaves ==
    {ij \in (1..Len(report[1].subreddit)) \X (1..(Len(comments) + Len(submissions))) :
        ij[2] <= Len(report[1].subreddit[ij[1]].children)}
LeafAt(ij) == report[1].subreddit[ij[1]].children[ij[2]]

CommentsIn(name) == SelectSeq(comments, LAMBDA c : c.subreddit = name)
SubmissionsIn(name) == SelectSeq(submissions, LAMBDA sb : sb.subreddit = name)
ScoreSum(posts) == SeqSum([i \in 1..Len(posts) |-> posts[i].score])

\* C26: in the subreddit tree of the report every subreddit with a post, in
\* the table or not, is exactly one leaf under one level-1 node; the leaf has
\* the subreddit's comment and submission counts and karma, posts = comments +
\* submissions and karma = comment_karma + submission_karma, also when the
\* comment pass created the leaf and the submission pass merged into it; the
\* posts of all leaves sum to the number of posts.
C26_SubredditLeaves ==
    pc = "returned" =>
        /\ \A ij \in SubredditLeaves : LeafAt(ij).name \in PostedSubreddits
        /\ \A name \in PostedSubreddits :
            /\ Cardinality({ij \in SubredditLeaves : LeafAt(ij).name = name}) = 1
            /\ \A ij \in SubredditLeaves : LeafAt(ij).name = name =>
                /\ LeafAt(ij).comments = Len(CommentsIn(name))
                /\ LeafAt(ij).submissions = Len(SubmissionsIn(name))
                /\ LeafAt(ij).comment_karma = ScoreSum(CommentsIn(name))
                /\ LeafAt(ij).submission_karma = ScoreSum(SubmissionsIn(name))
                /\ LeafAt(ij).posts = LeafAt(ij).comments + LeafAt(ij).submissions
                /\ LeafAt(ij).karma = LeafAt(ij).comment_karma + LeafAt(ij).submission_karma
        /\ SumOver(SubredditLeaves, [ij \in SubredditLeaves |-> LeafAt(ij).posts]) =
                Len(comments) + Len(submissions)

\* a subreddit with a comment and a submission is one merged leaf, next to a
\* subreddit that is not in the table
C26_Witness ==
    /\ pc = "returned"
    /\ CommentsIn("gaming") # <<>> /\ SubmissionsIn("gaming") # <<>>
    /\ CommentsIn("jokes") # <<>>
    /\ \E ij \in SubredditLeaves :
            /\ LeafAt(ij).name = "gaming" /\ LeafAt(ij).posts = 2 /\ LeafAt(ij).karma = 7
    /\ \E ij \in SubredditLeaves :
            /\ LeafAt(ij).name = "jokes" /\ report[1].subreddit[ij[1]].name = "Other"

\* the accumulators as __init__ leaves them
FreshAccumulators ==
    [date |-> DateBuckets(today, DateOf(signup_date)),
     hour |-> [h \in 0..23 |-> Counters],
     weekday |-> [w \in 0..6 |-> Counters],
     heatmap |-> [i \in 0..(HeatmapSize - 1) |-> 0],
     recent_karma |-> [d \in 0..(HeatmapDays - 1) |-> 0],
     recent_posts |-> [d \in 0..(HeatmapDays - 1) |-> 0]]

\* the accumulators after the updates of one more post
AfterPost(acc, post, is_comment) ==
    [date |-> RecordDate(acc.date, post.created_utc, is_comment, post.score),
     hour |-> RecordHour(acc.hour, post.created_utc, is_comment, post.score),
     weekday |-> RecordWeekday(acc.weekday, post.created_utc, is_comment, post.score),
     heatmap |-> RecordHeatmap(acc.heatmap, post.created_utc, today, is_comment),
     recent_karma |-> RecordRecentKarma(acc.recent_karma, post.created_utc, today, post.score),
     recent_posts |-> RecordRecentPosts(acc.recent_posts, post.created_utc, today)]

\* the posts as <<is_comment, index>>, and every order of processing them:
\* every permutation of the comments and of the submissions, interleaved in
\* every way
PostTags ==
    {<<TRUE, i>> : i \in 1..Len(comments)} \cup {<<FALSE, k>> : k \in 1..Len(submissions)}
ProcessingOrders ==
    {o \in [1..Cardinality(PostTags) -> PostTags] :
        \A a, b \in 1..Cardinality(PostTags) : o[a] = o[b] => a = b}

RECURSIVE ProcessedIn(_, _)
ProcessedIn(acc, order) ==
    IF order = <<>> THEN acc
    ELSE LET tag == Head(order)
             post == IF tag[1] THEN comments[tag[2]] ELSE submissions[tag[2]]
         IN ProcessedIn(AfterPost(acc, post, tag[1]), Tail(order))

FinalAccumulators ==
    [date |-> metrics_date, hour |-> metrics_hour, weekday |-> metrics_weekday,
     heatmap |-> heatmap, recent_karma |-> recent_karma, recent_posts |-> recent_posts]

\* C27: the final date, hour and weekday counters, the heatmap, recent_karma
\* and recent_posts depend only on the multisets of comments and of
\* submissions: processing the same posts in any other order, comments and
\* submissions interleaved or not, ends with the same values.
C27_OrderIndependent ==
    Processed =>
        \A o \in ProcessingOrders : ProcessedIn(FreshAccumulators, o) = FinalAccumulators

\* two comments of different scores in the same hour bucket and a submission
\* in the heatmap cell of one of them
C27_Witness ==
    /\ Processed
    /\ Len(comments) = 2 /\ comments[1].score # comments[2].score
    /\ Len(submissions) = 1
    /\ metrics_hour[9].comments = 2 /\ metrics_hour[9].comment_karma = 1
    /\ \E i \in 0..(HeatmapSize - 1) : heatmap[i] = 2
    /\ Cardinality(ProcessingOrders) = 6

\* C28: the first_post_date of the report is the timestamp of the earliest
\* post: the minimum created timestamp over all comments and submissions
\* together, for accounts with comments only, submissions only, or both.
C28_FirstPostIsEarliest ==
    pc = "returned" => report[1].first_post_date = SetMin(Range(PostTimes))

\* the posts dated d days after today - 60 days that update the recency
\* metrics (d > 0), and the sum of their scores
CommentsOfDay(d) == {i \in 1..Len(comments) : DayOffset(comments[i]) = d /\ d > 0}
SubmissionsOfDay(d) == {k \in 1..Len(submissions) : DayOffset(submissions[k]) = d /\ d > 0}
ScoresOfDay(d) ==
    SumOver(CommentsOfDay(d), [i \in CommentsOfDay(d) |-> comments[i].score]) +
    SumOver(SubmissionsOfDay(d), [k \in SubmissionsOfDay(d) |-> submissions[k].score])

\* the sum of the 24 heatmap cells of day d
CellsOfDay(d) == SeqSum([h \in 1..24 |-> heatmap[d * 24 + (h - 1)]])

\* C29: after all posts are processed, for every day offset d in 0..60 the 24
\* heatmap cells of day d (indices d*24 .. d*24+23) sum to recent_posts[d], and
\* recent_karma[d] is the sum of the scores of the posts counted in
\* recent_posts[d].
C29_PerDayConsistency ==
    Processed =>
        \A d \in 0..(HeatmapDays - 1) :
            /\ CellsOfDay(d) = recent_posts[d]
            /\ recent_posts[d] = Cardinality(CommentsOfDay(d)) + Cardinality(SubmissionsOfDay(d))
            /\ recent_karma[d] = ScoresOfDay(d)

====
